---- MODULE Spec2Model ----
(***************************************************************************)
(* Model of the reconciliation and sync engine of src/app.py:              *)
(*   - compare_articles_detailed   (reconciliation of two article lists)   *)
(*   - get_ada_articles            (paginated fetch of the destination)    *)
(*   - delete_ada_article / bulk_delete_ada_articles                       *)
(*   - create_ada_article_with_status /                                    *)
(*     create_articles_individually_with_status                            *)
(*   - log_api_call                (the bounded call log)                  *)
(*   - validate_ada_connection, clear_api_log                              *)
(*   - convert_to_ada_format, is_testing_article                           *)
(*   - the comparison steps of the page (retrieve, then compare)           *)
(* Each operation has its own specification (SpecCompare, SpecFetch,       *)
(* SpecBatch, SpecValidate, SpecLog, SpecConvert, SpecClassify,            *)
(* SpecSession); all of them share the call log.                           *)
(***************************************************************************)
EXTENDS Integers, Sequences, FiniteSets, TLC

VARIABLES
    api_call_log,        \* st.session_state.api_call_log
    http_trace,          \* the remote calls issued so far, with their outcome
    instance_name,       \* Ada configuration: "" when missing
    api_key,             \* Ada configuration: "" when missing
    \* ---- compare_articles_detailed
    grab_articles,       \* argument: the source list
    ada_articles_data,   \* argument: the destination result {"data": [...]}
    comparison_result,   \* the returned dictionary (NoResult before the call)
    cmpPc,               \* "idle" | "compared" | "again" (called a second time)
    knowledge_source_id, \* argument knowledge_source_id: "" when None or empty
    \* ---- get_ada_articles
    server,              \* the destination list endpoint: [pages, tail]
    page_count,          \* local page_count
    all_articles,        \* local all_articles
    warnings,            \* st.warning messages shown
    fetchResult,         \* the returned pair (NoResult before the return)
    fetchPc,             \* "start" | "loop" | "done"
    \* ---- bulk_delete_ada_articles / create_articles_individually_with_status
    batchKind,           \* "create" | "delete"
    items,               \* argument: article_ids (delete) or articles (create)
    options,             \* arguments user_type, language_locale, override_language, name_prefix
    ada_articles,        \* create: the payloads of convert_to_ada_format
    idx,                 \* number of loop iterations completed
    successful,          \* successful_deletions / successful_uploads
    failed,              \* failed_deletions / failed_uploads
    progress,            \* value last given to the progress bar, as <<num, den>>
    metrics,             \* the running counts last displayed (NoResult when none)
    batchResult,         \* the returned pair (NoResult before the return)
    batchPc,             \* "start" | "loop" | "call" | "done" | "convert" | "converted"
    \* ---- validate_ada_connection, log_api_call / clear_api_log
    validation,          \* the pair validate_ada_connection returned last
    recorded,            \* the entries given to log_api_call since the last clear_api_log
    \* ---- the comparison steps of the page
    ada_articles_result, \* st.session_state.ada_articles_result (NoResult when absent)
    sessPc,              \* "idle" | "step1" | "step3" | "step4" (the handler of a step is running)
    \* ---- is_testing_article
    input_articles,      \* the articles given to the classifier
    analysis,            \* the pairs is_testing_article returned for them
    filterPc,            \* "start" | "done"
    \* ---- filter_articles and the rest of the page
    filter_testing,      \* sidebar checkbox: filter out testing articles
    filter_empty,        \* sidebar checkbox: filter out empty articles
    session_all_articles,\* st.session_state.all_articles (stored when not empty; <<>> when absent)
    production_articles, \* st.session_state.production_articles, or the list returned
    filtered_articles,   \* st.session_state.filtered_articles, or the list returned
    delete_checked,      \* the ids whose checkbox "delete_<id>" is ticked
    confirm_deletion,    \* the checkbox "confirm_deletion"
    add_unchecked        \* the ids whose checkbox "add_<id>" is not ticked

vars == <<api_call_log, http_trace, instance_name, api_key,
          grab_articles, ada_articles_data, comparison_result, cmpPc,
          knowledge_source_id, server, page_count, all_articles, warnings,
          fetchResult, fetchPc,
          batchKind, items, options, ada_articles, idx, successful, failed, progress, metrics,
          batchResult, batchPc, validation, recorded, ada_articles_result, sessPc,
          input_articles, analysis, filterPc,
          filter_testing, filter_empty, session_all_articles, production_articles,
          filtered_articles, delete_checked, confirm_deletion, add_unchecked>>

cmpVars == <<grab_articles, ada_articles_data, comparison_result, cmpPc>>

fetchVars == <<server, page_count, all_articles, warnings,
               fetchResult, fetchPc>>

batchVars == <<batchKind, items, options, ada_articles, idx, successful, failed, progress, metrics,
               batchResult, batchPc>>

cfgVars == <<instance_name, api_key, knowledge_source_id>>

uiVars == <<validation, recorded, ada_articles_result, sessPc>>

filterVars == <<input_articles, analysis, filterPc>>

pageVars == <<filter_testing, filter_empty, session_all_articles, production_articles,
              filtered_articles, delete_checked, confirm_deletion, add_unchecked>>

NoResult == [none |-> TRUE]

----------------------------------------------------------------------------
(* Bounds of the model *)

MaxSrc == 2        \* longest source list given to compare_articles_detailed
MaxDst == 2        \* longest destination list given to compare_articles_detailed
MaxScript == 2     \* most pages the list endpoint holds before its tail
MaxItems == 5      \* longest list given to a bulk create or a bulk delete
PageCap == 104     \* no run of the model requests more pages than this
MaxCalls == 3      \* most connection validations of one run
MaxLogged == 52    \* most entries recorded between two clear_api_log
MaxVaried == 2     \* the entries recorded first differ in their method
MaxConvert == 2    \* longest list given to convert_to_ada_format alone
MaxSessionLog == 5 \* no button is pressed once the call log holds this many entries
MaxActLog == 6 \* no delete or add button is pressed once the call log holds this many entries

----------------------------------------------------------------------------
(* Generic helpers *)

SeqsUpTo(S, n) == UNION {[1..k -> S] : k \in 0..n}

\* The iteration orders a Python set with the elements of S can have.
Orders(S) == {f \in [1..Cardinality(S) -> S] : \A i, j \in 1..Cardinality(S) : f[i] = f[j] => i = j}

RECURSIVE SelectOrder(_, _, _)
\* [x for x in order if Keep contains x], as a sequence
SelectOrder(order, Keep, k) ==
    IF k > Len(order) THEN <<>>
    ELSE (IF order[k] \in Keep THEN <<order[k]>> ELSE <<>>) \o SelectOrder(order, Keep, k + 1)

----------------------------------------------------------------------------
(* The call log: log_api_call *)

LogLimit == 50

\* A plausible slip: on overflow the newest entry is dropped, not the oldest.
log_api_call_keep_oldest(log, entry) ==
    LET appended == Append(log, entry)
    IN  IF Len(appended) > LogLimit THEN SubSeq(appended, 1, LogLimit) ELSE appended

\* log_api_call: append, then keep only the last 50 entries (lines 39-43)
log_api_call(log, entry) ==
    LET appended == Append(log, entry)
    IN  IF Len(appended) > LogLimit
        THEN SubSeq(appended, Len(appended) - LogLimit + 1, Len(appended))
        ELSE appended

LogEntry(method, url, status_code, success, ref) ==
    [method |-> method, url |-> url, status_code |-> status_code,
     success |-> success, ref |-> ref]

\* a call of log_api_call by any operation: the k-th entry since the last
\* clear carries k in its details
LogApiCall ==
    /\ sessPc = "log"
    /\ Len(recorded) < MaxLogged
    /\ \E method \in (IF Len(recorded) < MaxVaried THEN {"GET", "POST"} ELSE {"GET"}) :
          LET entry == LogEntry(method, "url", 200, TRUE, [call |-> Len(recorded) + 1])
          IN  /\ api_call_log' = log_api_call(api_call_log, entry)
              /\ recorded' = Append(recorded, entry)
    /\ UNCHANGED <<validation, ada_articles_result, sessPc, http_trace>>
    /\ UNCHANGED <<cfgVars, cmpVars, fetchVars, batchVars, filterVars, pageVars>>

\* clear_api_log (lines 99-102)
ClearApiLog ==
    /\ sessPc = "log"
    /\ api_call_log' = <<>>
    /\ recorded' = <<>>
    /\ UNCHANGED <<validation, ada_articles_result, sessPc, http_trace>>
    /\ UNCHANGED <<cfgVars, cmpVars, fetchVars, batchVars, filterVars, pageVars>>

----------------------------------------------------------------------------
(* Python values of the "id" field and str() *)

IntId(n) == [t |-> "int", v |-> n]
StrId(s) == [t |-> "str", v |-> s]
NoneId == [t |-> "none"]

Digit(d) ==
    CASE d = 0 -> "0" [] d = 1 -> "1" [] d = 2 -> "2" [] d = 3 -> "3"
      [] d = 4 -> "4" [] d = 5 -> "5" [] d = 6 -> "6" [] d = 7 -> "7"
      [] d = 8 -> "8" [] d = 9 -> "9"

RECURSIVE IntToStr(_)
IntToStr(n) == IF n < 10 THEN Digit(n) ELSE IntToStr(n \div 10) \o Digit(n % 10)

\* Python's str(x) for the id values of the model
Str(x) ==
    CASE x.t = "int" -> IntToStr(x.v)
      [] x.t = "str" -> x.v
      [] x.t = "none" -> "None"

----------------------------------------------------------------------------
(* compare_articles_detailed *)

\* A plausible slip: the key keeps the type of the raw value, so that the
\* integer 42 and the string "42" get different keys.
GrabKeyRaw(article) ==
    IF article.id.t = "int" THEN "int:" \o Str(article.id) ELSE Str(article.id)

\* str(article['id']) of a source article
GrabKey(article) == Str(article.id)

\* str(ada_article.get('id', '')) of a destination article
AdaKey(ada_article) ==
    IF "id" \in DOMAIN ada_article THEN Str(ada_article.id) ELSE ""

\* set(str(article['id']) for article in grab_articles)
GrabIds(grab) == {GrabKey(grab[i]) : i \in 1..Len(grab)}

\* A plausible slip: the empty key is kept like any other key.
AdaIdsKeepEmpty(ada) == {AdaKey(ada[i]) : i \in 1..Len(ada)}

\* ada_ids: the keys of the destination articles, the empty key skipped
\* ("if article_key:", line 633)
AdaIds(ada) == {AdaKey(ada[i]) : i \in 1..Len(ada)} \ {""}

\* A plausible slip: the test "not in ada_ids" forgotten.
AddKeysAll(grab_ids, ada_ids) == grab_ids

\* the keys of articles_to_add (lines 646-648)
AddKeys(grab_ids, ada_ids) == grab_ids \ ada_ids

\* the keys of articles_to_delete (lines 640-642)
DeleteKeys(grab_ids, ada_ids) == ada_ids \ grab_ids

\* the keys of articles_existing (lines 652-657)
ExistingKeys(grab_ids, ada_ids) == grab_ids \cap ada_ids

\* A plausible slip: the first article of a key is kept, not the last.
GrabArticlesDictFirst(grab, k) ==
    grab[CHOOSE i \in 1..Len(grab) :
            /\ GrabKey(grab[i]) = k
            /\ \A j \in 1..Len(grab) : GrabKey(grab[j]) = k => i <= j]

\* grab_articles_dict[k]: a later article with the same key replaces an
\* earlier one
GrabArticlesDict(grab, k) ==
    grab[CHOOSE i \in 1..Len(grab) :
            /\ GrabKey(grab[i]) = k
            /\ \A j \in 1..Len(grab) : GrabKey(grab[j]) = k => j <= i]

\* ada_articles_dict[k]: a later article with the same key replaces an
\* earlier one
AdaArticlesDict(ada, k) ==
    ada[CHOOSE i \in 1..Len(ada) :
            /\ AdaKey(ada[i]) = k
            /\ \A j \in 1..Len(ada) : AdaKey(ada[j]) = k => j <= i]

\* The dictionary returned by compare_articles_detailed, for the iteration
\* orders grabOrder of grab_ids and adaOrder of ada_ids.
CompareResult(grab, ada_data, grabOrder, adaOrder) ==
    LET ada == ada_data.data
        grab_ids == GrabIds(grab)
        ada_ids == AdaIds(ada)
        delKeys == SelectOrder(adaOrder, DeleteKeys(grab_ids, ada_ids), 1)
        addKeys == SelectOrder(grabOrder, AddKeys(grab_ids, ada_ids), 1)
        exKeys == SelectOrder(grabOrder, ExistingKeys(grab_ids, ada_ids), 1)
    IN  [articles_to_delete |-> [i \in 1..Len(delKeys) |-> AdaArticlesDict(ada, delKeys[i])],
         articles_to_add |-> [i \in 1..Len(addKeys) |-> GrabArticlesDict(grab, addKeys[i])],
         articles_existing |-> [i \in 1..Len(exKeys) |->
                                  [grab_article |-> GrabArticlesDict(grab, exKeys[i]),
                                   ada_article |-> AdaArticlesDict(ada, exKeys[i])]],
         grab_total |-> Len(grab),
         ada_total |-> Len(ada),
         grab_ids |-> grab_ids,
         ada_ids |-> ada_ids]

\* The source articles of the model (extract_articles: id may be an integer,
\* a string, or None)
GrabArticleValues ==
    {[id |-> IntId(42), name |-> "How to pay"],
     [id |-> StrId("42"), name |-> "Pay"],
     [id |-> IntId(7), name |-> "Promo"],
     [id |-> StrId(""), name |-> "No id"],
     [id |-> NoneId, name |-> "None id"]}

\* The destination articles of the model; the last one has no "id" field
AdaArticleValues ==
    {[id |-> StrId("42"), name |-> "How to pay", knowledge_source_id |-> "ks1"],
     [id |-> IntId(9), name |-> "Old", knowledge_source_id |-> "ks1"],
     [id |-> StrId(""), name |-> "Empty id", knowledge_source_id |-> "ks1"],
     [name |-> "Missing id", knowledge_source_id |-> "ks1"]}

\* A plausible slip: the two totals of the log entry exchanged.
CompareLogEntrySwapped(grab, ada) ==
    LogEntry("COMPARE", "Local Comparison", 200, TRUE,
             [grab_total |-> Len(ada), ada_total |-> Len(grab)])

\* the COMPARE entry of the call log (lines 660-673)
CompareLogEntry(grab, ada) ==
    LogEntry("COMPARE", "Local Comparison", 200, TRUE,
             [grab_total |-> Len(grab), ada_total |-> Len(ada)])

\* compare_articles_detailed(grab_articles, ada_articles_data): the result
\* and the COMPARE entry of the call log; the function is called a first
\* and a second time on the same lists
CompareStep ==
    /\ cmpPc \in {"idle", "compared"}
    /\ \E grabOrder \in Orders(GrabIds(grab_articles)),
          adaOrder \in Orders(AdaIds(ada_articles_data.data)) :
          comparison_result' =
              CompareResult(grab_articles, ada_articles_data, grabOrder, adaOrder)
    /\ api_call_log' = log_api_call(api_call_log,
                          CompareLogEntry(grab_articles, ada_articles_data.data))
    /\ cmpPc' = IF cmpPc = "idle" THEN "compared" ELSE "again"
    /\ UNCHANGED <<grab_articles, ada_articles_data, http_trace>>
    /\ UNCHANGED <<cfgVars, fetchVars, batchVars, uiVars, filterVars, pageVars>>

----------------------------------------------------------------------------
(* The remote service, as get_ada_articles sees it *)

PerPage == 100         \* "per_page": 100, and the full-page test of line 450

MaxPageLimit == 100    \* the safety break of line 458

HttpResponse(status, data, meta) ==
    [kind |-> "http", status |-> status, data |-> data, meta |-> meta]

HttpStatus(status) == [kind |-> "http", status |-> status]

ConnectionError == [kind |-> "connection_error"]

Timeout == [kind |-> "timeout"]

\* A page of three articles, one of them of another knowledge source
ShortPage ==
    <<[id |-> StrId("a1"), name |-> "A1", knowledge_source_id |-> "ks1"],
      [id |-> StrId("b1"), name |-> "B1", knowledge_source_id |-> "ks2"],
      [id |-> StrId("a2"), name |-> "A2", knowledge_source_id |-> "ks1"]>>

\* A page of per_page articles
FullPage ==
    [i \in 1..PerPage |-> [id |-> IntId(i), name |-> "Article", knowledge_source_id |-> "ks1"]]

\* A page of per_page articles, the first of them of another knowledge source
MixedPage ==
    [i \in 1..PerPage |-> [id |-> IntId(i), name |-> "Article",
                           knowledge_source_id |-> IF i = 1 THEN "ks2" ELSE "ks1"]]

\* What the list endpoint can answer to one page request. The body of an
\* answer without error status is the JSON object {data, meta?} of the list
\* endpoint; meta is "absent", or its pagination says that further pages
\* exist ("more") or that this is the last page ("last").
PageResponses ==
    {HttpResponse(st, d, m) : st \in {200, 202}, d \in {<<>>, ShortPage, FullPage},
                              m \in {"absent", "more", "last"}}
        \cup {HttpResponse(200, MixedPage, "more")}
        \cup {HttpResponse(500, <<>>, "absent"), ConnectionError}

\* The answer of the service to the request of page p: the pages it holds
\* first, and then for ever an empty page ("empty"), for ever a full page
\* whose metadata announces more ("full"), or such full pages up to page 100
\* and empty pages after it ("full_to_limit").
ServerResponse(srv, p) ==
    IF p <= Len(srv.pages) THEN srv.pages[p]
    ELSE IF srv.tail = "full" \/ (srv.tail = "full_to_limit" /\ p <= MaxPageLimit)
    THEN HttpResponse(200, FullPage, "more")
    ELSE HttpResponse(200, <<>>, "absent")

\* result.get('meta', {}).get('pagination', {}) of the answer to page p
Pagination(resp, p) ==
    CASE resp.meta = "more" -> [current_page |-> p, total_pages |-> p + 1]
      [] resp.meta = "last" -> [current_page |-> p, total_pages |-> p]
      [] resp.meta = "absent" -> [absent |-> TRUE]

----------------------------------------------------------------------------
(* get_ada_articles *)

\* all([instance_name, api_key])
ConfigComplete == instance_name # "" /\ api_key # ""

\* response.raise_for_status(): an HTTPError for 4xx and 5xx only
RaisesForStatus(status) == status >= 400 /\ status < 600

\* article.get('knowledge_source_id')
KsOf(article) ==
    IF "knowledge_source_id" \in DOMAIN article THEN article.knowledge_source_id ELSE "None"

\* A plausible slip: the filter of the server is trusted.
FilterByKsTrusting(data, ks) == data

\* [article for article in data if article.get('knowledge_source_id') == ks]
FilterByKs(data, ks) == SelectSeq(data, LAMBDA article : KsOf(article) = ks)

\* the articles a page adds to all_articles (lines 429-436)
PageArticles(data, ks) == IF ks # "" THEN FilterByKs(data, ks) ELSE data

\* A plausible slip: ">" for ">=", so that the last page is not recognised.
LastPageByMetaStrict(pagination, pc) ==
    LET current_page == IF "current_page" \in DOMAIN pagination
                        THEN pagination.current_page ELSE pc
        total_pages == IF "total_pages" \in DOMAIN pagination
                       THEN pagination.total_pages ELSE 1
    IN  current_page > total_pages

\* pagination.get('current_page', page_count) >= pagination.get('total_pages', 1)
LastPageByMeta(pagination, pc) ==
    LET current_page == IF "current_page" \in DOMAIN pagination
                        THEN pagination.current_page ELSE pc
        total_pages == IF "total_pages" \in DOMAIN pagination
                       THEN pagination.total_pages ELSE 1
    IN  current_page >= total_pages

\* A plausible slip: "<=" for "<", so that a full page ends the fetch too.
ShortOrFullPage(data) == Len(data) <= PerPage

\* len(result['data']) < 100
ShortOfFullPage(data) == Len(data) < PerPage

\* A plausible slip: the safety break left out.
NoSafetyBreak(pc) == FALSE

\* the safety break: page_count > 100
SafetyBreak(pc) == pc > MaxPageLimit

PageLogEntry(p, status) ==
    LogEntry("GET", "articles/?page", status, status = 200, [page |-> p])

SummaryLogEntry(total, pages) ==
    LogEntry("GET", "articles/", 200, TRUE, [completed |-> total, pages |-> pages])

ErrorLogEntry(method, status) ==
    LogEntry(method, "error", status, FALSE, [error |-> TRUE])

FetchSuccess(articles) == [ok |-> TRUE, data |-> articles, total |-> Len(articles)]

Failure(msg) == [ok |-> FALSE, error |-> msg]

\* get_ada_articles up to the loop: the configuration check (lines 383-396)
FetchStart ==
    /\ fetchPc = "start"
    /\ IF ~ConfigComplete
       THEN /\ fetchResult' = Failure("Missing configuration")
            /\ fetchPc' = "done"
       ELSE /\ fetchPc' = "loop"
            /\ UNCHANGED fetchResult
    /\ page_count' = 0
    /\ all_articles' = <<>>
    /\ UNCHANGED <<server, warnings, api_call_log, http_trace>>
    /\ UNCHANGED <<cfgVars, cmpVars, batchVars, uiVars, filterVars, pageVars>>

\* the loop leaves with break: the summary entry and the return (lines 462-471)
FetchReturn(log, articles, pages) ==
    /\ api_call_log' = log_api_call(log, SummaryLogEntry(Len(articles), pages))
    /\ fetchResult' = FetchSuccess(articles)
    /\ fetchPc' = "done"

\* the except clause: the error entry and the failure return (lines 473-489)
FetchFail(log, status) ==
    /\ api_call_log' = log_api_call(log, ErrorLogEntry("GET", status))
    /\ fetchResult' = Failure("Error")
    /\ fetchPc' = "done"
    /\ UNCHANGED <<all_articles, warnings>>

\* what follows the page log entry for an answer that raises nothing
\* (lines 424-460)
FetchDecide(log, resp, pc) ==
    IF resp.data # <<>>
    THEN LET articles == all_articles \o PageArticles(resp.data, knowledge_source_id)
         IN  /\ all_articles' = articles
             /\ IF LastPageByMeta(Pagination(resp, pc), pc) \/ ShortOfFullPage(resp.data)
                THEN /\ FetchReturn(log, articles, pc)
                     /\ UNCHANGED warnings
                ELSE IF SafetyBreak(pc)
                THEN /\ warnings' = Append(warnings, "Reached maximum page limit (100). There might be more articles.")
                     /\ FetchReturn(log, articles, pc)
                ELSE /\ api_call_log' = log
                     /\ UNCHANGED <<warnings, fetchResult, fetchPc>>
    ELSE /\ FetchReturn(log, all_articles, pc)
         /\ UNCHANGED <<all_articles, warnings>>

\* A plausible slip: the entry of the page is not in the log when the answer
\* is examined.
PageNotLogged(log, p, status) == log

\* "Log each API call": the entry of the page, appended as soon as the
\* answer is there (lines 413-421)
PageLogged(log, p, status) == log_api_call(log, PageLogEntry(p, status))

\* one iteration of the while loop (lines 398-460), with what follows the
\* loop when the iteration leaves it
FetchPage ==
    /\ fetchPc = "loop"
    /\ page_count < PageCap
    /\ LET pc == page_count + 1
           resp == ServerResponse(server, pc)
       IN  /\ page_count' = pc
           /\ http_trace' = Append(http_trace, [method |-> "GET", page |-> pc, response |-> resp])
           /\ IF resp.kind # "http"
              THEN FetchFail(api_call_log, 0)
              ELSE LET logged == PageLogged(api_call_log, pc, resp.status)
                   IN  IF RaisesForStatus(resp.status)
                       THEN FetchFail(logged, resp.status)
                       ELSE FetchDecide(logged, resp, pc)
    /\ UNCHANGED server
    /\ UNCHANGED <<cfgVars, cmpVars, batchVars, uiVars, filterVars, pageVars>>

----------------------------------------------------------------------------
(* convert_to_ada_format *)

\* A plausible slip: every user type gets the default domain.
ArticleUrlDefaultDomain(user_type, language_locale, id) ==
    "https://help.grab.com/" \o user_type \o "/" \o language_locale \o "/" \o Str(id)

\* the domain and path segment of the article url (lines 695-705)
ArticleUrl(user_type, language_locale, id) ==
    IF user_type \in {"moveitpassenger", "moveitdriver"}
    THEN "https://help.moveit.com.ph/"
            \o (IF user_type = "moveitpassenger" THEN "passenger" ELSE "driver")
            \o "/" \o language_locale \o "/" \o Str(id)
    ELSE "https://help.grab.com/" \o user_type \o "/" \o language_locale \o "/" \o Str(id)

\* article[field] or default: a field holding None is a field the record
\* does not have
FieldOr(article, field, default) ==
    IF field \in DOMAIN article /\ article[field] # "" THEN article[field] ELSE default

\* A plausible slip: the destination article is given an id of its own, not
\* the id of the source article.
AdaPayloadOwnId(article, opts, ks) ==
    [id |-> StrId("ada-" \o Str(article.id)),
     name |-> opts.name_prefix \o FieldOr(article, "name", "Article " \o Str(article.id)),
     content |-> FieldOr(article, "body", ""),
     knowledge_source_id |-> ks,
     url |-> ArticleUrl(opts.user_type, opts.language_locale, article.id),
     language |-> IF opts.override_language # "" THEN opts.override_language
                  ELSE opts.language_locale]

\* the payload of one article (lines 694-721)
AdaPayload(article, opts, ks) ==
    [id |-> StrId(Str(article.id)),
     name |-> opts.name_prefix \o FieldOr(article, "name", "Article " \o Str(article.id)),
     content |-> FieldOr(article, "body", ""),
     knowledge_source_id |-> ks,
     url |-> ArticleUrl(opts.user_type, opts.language_locale, article.id),
     language |-> IF opts.override_language # "" THEN opts.override_language
                  ELSE opts.language_locale]

\* convert_to_ada_format: one payload per article, in input order
ConvertToAdaFormat(articles, opts, ks) ==
    [i \in 1..Len(articles) |-> AdaPayload(articles[i], opts, ks)]

\* a call of convert_to_ada_format(items, user_type, language_locale,
\* knowledge_source_id, override_language, name_prefix)
ConvertStep ==
    /\ batchPc = "convert"
    /\ ada_articles' = ConvertToAdaFormat(items, options, knowledge_source_id)
    /\ batchPc' = "converted"
    /\ UNCHANGED <<batchKind, items, options, idx, successful, failed, progress, metrics, batchResult>>
    /\ UNCHANGED <<api_call_log, http_trace>>
    /\ UNCHANGED <<cfgVars, cmpVars, fetchVars, uiVars, filterVars, pageVars>>

----------------------------------------------------------------------------
(* delete_ada_article and create_ada_article_with_status *)

\* Python truth of an id value: "", None and 0 are false
Truthy(id) ==
    CASE id.t = "str" -> id.v # ""
      [] id.t = "int" -> id.v # 0
      [] id.t = "none" -> FALSE

\* what a DELETE or POST request can end in; an answer of the bulk-create
\* endpoint with status 200 or 201 carries the JSON body of that endpoint
CallOutcomes ==
    {HttpStatus(200), HttpStatus(201), HttpStatus(204), HttpStatus(500), Timeout, ConnectionError}

\* delete_ada_article makes no request without configuration or article id
DeleteCalls(article_id) == ConfigComplete /\ Truthy(article_id)

\* the success flag of the DELETE log entry (line 532)
DeleteLogSuccess(status) == status \in {200, 204}

\* the log entries one delete_ada_article call appends (lines 528-553)
DeleteLogEntries(article_id, outcome) ==
    IF outcome.kind = "http"
    THEN <<LogEntry("DELETE", "articles/{id}", outcome.status,
                    DeleteLogSuccess(outcome.status), [article_id |-> article_id])>>
            \o (IF RaisesForStatus(outcome.status)
                THEN <<ErrorLogEntry("DELETE", outcome.status)>> ELSE <<>>)
    ELSE <<ErrorLogEntry("DELETE", 0)>>

\* the pair delete_ada_article returns (lines 514-555)
DeleteReturn(article_id, outcome) ==
    IF ~DeleteCalls(article_id) THEN Failure("Missing configuration")
    ELSE IF outcome.kind = "http" /\ ~RaisesForStatus(outcome.status)
    THEN [ok |-> TRUE, message |-> "Article deleted successfully"]
    ELSE Failure("Error")

\* A plausible slip: only 200 counted as a successful creation.
CreateSuccessOnly200(status) == status = 200

\* response.status_code in [200, 201] (lines 774 and 785)
CreateSuccess(status) == status \in {200, 201}

\* the log entry one create_ada_article_with_status call appends
\* (lines 770-783, 820-826, 846-852)
CreateLogEntries(article_data, outcome) ==
    IF outcome.kind = "http"
    THEN <<LogEntry("POST", "bulk/articles/", outcome.status,
                    CreateSuccess(outcome.status), [article_id |-> article_data.id])>>
    ELSE <<ErrorLogEntry("POST", 0)>>

\* the pair create_ada_article_with_status returns (lines 728-854)
CreateReturn(article_data, outcome) ==
    IF ~(instance_name # "" /\ api_key # "") THEN Failure("Missing configuration")
    ELSE IF outcome.kind = "http"
    THEN IF CreateSuccess(outcome.status)
         THEN [ok |-> TRUE, response |-> outcome.status]
         ELSE Failure("HTTP")
    ELSE IF outcome.kind = "timeout" THEN Failure("Request timed out")
    ELSE Failure("Error")

RECURSIVE LogAll(_, _)
\* log_api_call for each entry in turn
LogAll(log, entries) ==
    IF entries = <<>> THEN log ELSE LogAll(log_api_call(log, Head(entries)), Tail(entries))

----------------------------------------------------------------------------
(* bulk_delete_ada_articles and create_articles_individually_with_status *)

\* the list the loop runs over
Work == IF batchKind = "create" THEN ada_articles ELSE items

\* A plausible slip: the instance name left out of the configuration check.
BatchConfiguredKeyOnly ==
    IF batchKind = "create"
    THEN knowledge_source_id # "" /\ api_key # ""
    ELSE api_key # "" /\ items # <<>>

\* the configuration check of the two operations (lines 560 and 859)
BatchConfigured ==
    IF batchKind = "create"
    THEN instance_name # "" /\ knowledge_source_id # "" /\ api_key # ""
    ELSE instance_name # "" /\ api_key # "" /\ items # <<>>

BatchLogEntry(kind, url, ref) ==
    LogEntry(IF kind = "create" THEN "POST" ELSE "DELETE", url, 200, TRUE, ref)

\* the report the operations return (lines 610-616 and 981-988)
BatchReport(succ, fail, work) ==
    [ok |-> TRUE,
     successful |-> Len(succ),
     failed |-> Len(fail),
     successful_list |-> succ,
     failed_list |-> fail,
     total_processed |-> Len(work)]

\* what follows the loop: the completion entry and the return
\* (lines 592-616 and 942-988)
BatchFinish(log, succ, fail, work) ==
    /\ api_call_log' = log_api_call(log,
            BatchLogEntry(batchKind, "Complete",
                          [successful |-> Len(succ), failed |-> Len(fail), total |-> Len(work)]))
    /\ batchResult' = BatchReport(succ, fail, work)
    /\ batchPc' = "done"

\* the running counts a batch displays: the create batch shows them before
\* its loop (lines 889-897), at the top of every iteration (lines 912-916)
\* and after the loop (lines 950-954); the delete batch shows none
Metrics(succ, fail) ==
    IF batchKind = "create" THEN [successful |-> Len(succ), failed |-> Len(fail)] ELSE NoResult

InitialMetrics == Metrics(<<>>, <<>>)

\* the operation up to its loop (lines 558-577 and 857-899)
BatchStart ==
    /\ batchPc = "start"
    /\ idx' = 0
    /\ successful' = <<>>
    /\ failed' = <<>>
    /\ IF ~BatchConfigured
       THEN /\ batchResult' = Failure("Missing configuration")
            /\ batchPc' = "done"
            /\ UNCHANGED <<ada_articles, api_call_log, progress, metrics>>
       ELSE LET work == IF batchKind = "create"
                        THEN ConvertToAdaFormat(items, options, knowledge_source_id)
                        ELSE items
                started == log_api_call(api_call_log,
                              BatchLogEntry(batchKind, "Start", [total |-> Len(work)]))
            IN  /\ ada_articles' = IF batchKind = "create" THEN work ELSE <<>>
                /\ metrics' = InitialMetrics
                /\ IF work = <<>>
                   THEN /\ progress' = <<1, 1>>
                        /\ BatchFinish(started, <<>>, <<>>, work)
                   ELSE /\ progress' = <<0, Len(work)>>
                        /\ api_call_log' = started
                        /\ batchPc' = "loop"
                        /\ UNCHANGED batchResult
    /\ UNCHANGED <<batchKind, items, options, http_trace>>
    /\ UNCHANGED <<cfgVars, cmpVars, fetchVars, uiVars, filterVars, pageVars>>

\* A plausible slip: the loop is left at the first failure.
StopsAtFailure(ok, i, n) == i = n \/ ~ok

\* the loop ends with the last item, whatever the item's result
LoopEnds(ok, i, n) == i = n

\* A plausible slip: a failed item is recorded in neither list.
FailedUnrecorded(fail, record) == fail

\* A plausible slip: the newest failure is put first.
RecordFailureFirst(fail, record) == <<record>> \o fail

\* failed_deletions.append / failed_uploads.append (lines 590 and 934-937)
RecordFailure(fail, record) == Append(fail, record)

\* A plausible slip: a failed item is attempted again.
RetryFailed(i, ok) == IF ok THEN i ELSE i - 1

\* the for loop goes on to the next item, whatever the result of this one
Advance(i, ok) == i

\* A plausible slip (and the reading of the progress bar as "work done"):
\* the bar shows the items finished so far.
ShownFinished(i) == i

\* progress = (i + 1) / len(...), i the number of items finished so far
ShownProgress(i) == i + 1

\* the top of an iteration of the for loop, up to the remote call: the
\* progress bar, and for a create batch the running counts, are updated
\* (lines 579-583 and 901-916)
BatchProgress ==
    /\ batchPc = "loop"
    /\ idx < Len(Work)
    /\ progress' = <<ShownProgress(idx), Len(Work)>>
    /\ metrics' = Metrics(successful, failed)
    /\ batchPc' = "call"
    /\ UNCHANGED <<batchKind, items, options, ada_articles, idx, successful, failed, batchResult>>
    /\ UNCHANGED <<api_call_log, http_trace>>
    /\ UNCHANGED <<cfgVars, cmpVars, fetchVars, uiVars, filterVars, pageVars>>

\* the rest of the iteration (lines 585-590 and 918-940): the remote call
\* of the item and the record of its result, with what follows the loop when
\* the item is the last one
BatchItem ==
    /\ batchPc = "call"
    /\ idx < Len(Work)
    /\ LET i == idx + 1
           item == Work[i]
           calls == IF batchKind = "create" THEN TRUE ELSE DeleteCalls(item)
       IN  \E outcome \in CallOutcomes :
             \* without a request there is no outcome to choose
             /\ ~calls => outcome = ConnectionError
             /\ LET ret == IF batchKind = "create" THEN CreateReturn(item, outcome)
                           ELSE DeleteReturn(item, outcome)
                    entries == IF ~calls THEN <<>>
                               ELSE IF batchKind = "create" THEN CreateLogEntries(item, outcome)
                               ELSE DeleteLogEntries(item, outcome)
                    logged == LogAll(api_call_log, entries)
                    succ == IF ret.ok
                            THEN Append(successful,
                                        IF batchKind = "create"
                                        THEN [article |-> item, response |-> ret.response]
                                        ELSE item)
                            ELSE successful
                    fail == IF ret.ok THEN failed
                            ELSE RecordFailure(failed,
                                        IF batchKind = "create"
                                        THEN [article |-> item, error |-> ret.error]
                                        ELSE [article_id |-> item, error |-> ret.error])
                IN  /\ http_trace' = IF calls
                                     THEN Append(http_trace,
                                            [method |-> IF batchKind = "create" THEN "POST" ELSE "DELETE",
                                             index |-> i, target |-> item, response |-> outcome])
                                     ELSE http_trace
                    /\ idx' = Advance(i, ret.ok)
                    /\ successful' = succ
                    /\ failed' = fail
                    /\ IF LoopEnds(ret.ok, i, Len(Work))
                       THEN /\ BatchFinish(logged, succ, fail, Work)
                            /\ progress' = <<Len(Work), Len(Work)>>
                            /\ metrics' = Metrics(succ, fail)
                       ELSE /\ api_call_log' = logged
                            /\ batchPc' = "loop"
                            /\ UNCHANGED <<batchResult, progress, metrics>>
    /\ UNCHANGED <<batchKind, items, options, ada_articles>>
    /\ UNCHANGED <<cfgVars, cmpVars, fetchVars, uiVars, filterVars, pageVars>>

----------------------------------------------------------------------------
(* Python strings: lower(), strip(), "in" and the regular expressions of
   is_testing_article *)

UpperCase == "ABCDEFGHIJKLMNOPQRSTUVWXYZ"

LowerCase == "abcdefghijklmnopqrstuvwxyz"

CharAt(s, i) == SubSeq(s, i, i)

LowerChar(c) ==
    IF \E i \in 1..26 : CharAt(UpperCase, i) = c
    THEN CharAt(LowerCase, CHOOSE i \in 1..26 : CharAt(UpperCase, i) = c)
    ELSE c

RECURSIVE Lower(_)
\* s.lower(), one half of the string after the other
Lower(s) ==
    IF Len(s) = 0 THEN ""
    ELSE IF Len(s) = 1 THEN LowerChar(s)
    ELSE Lower(SubSeq(s, 1, Len(s) \div 2)) \o Lower(SubSeq(s, Len(s) \div 2 + 1, Len(s)))

\* keyword in s
Contains(s, keyword) ==
    \E i \in 1..(Len(s) - Len(keyword) + 1) : SubSeq(s, i, i + Len(keyword) - 1) = keyword

Whitespace == {" ", "\t", "\n"}

\* s.strip()
Strip(s) ==
    LET inked == {i \in 1..Len(s) : CharAt(s, i) \notin Whitespace}
    IN  IF inked = {} THEN ""
        ELSE SubSeq(s, CHOOSE i \in inked : \A j \in inked : i <= j,
                       CHOOSE i \in inked : \A j \in inked : j <= i)

\* s[:n]
Prefix(s, n) == IF Len(s) <= n THEN s ELSE SubSeq(s, 1, n)

IsDigit(c) == c \in {"0", "1", "2", "3", "4", "5", "6", "7", "8", "9"}

\* re.search(word + r'\d+', s)
WordThenDigit(s, word) ==
    \E i \in 1..(Len(s) - Len(word)) :
        SubSeq(s, i, i + Len(word) - 1) = word /\ IsDigit(CharAt(s, i + Len(word)))

\* re.search(r'\d+' + word, s)
DigitThenWord(s, word) ==
    \E i \in 1..(Len(s) - Len(word)) :
        IsDigit(CharAt(s, i)) /\ SubSeq(s, i + 1, i + Len(word)) = word

\* re.search(r'^(test|sample|dummy|placeholder)\s', s)
StartsWithFiller(s) ==
    \E word \in {"test", "sample", "dummy", "placeholder"} :
        /\ Len(s) > Len(word)
        /\ SubSeq(s, 1, Len(word)) = word
        /\ CharAt(s, Len(word) + 1) \in Whitespace

\* re.search(r'(.)\1{4,}', s)
RepeatedChars(s) ==
    \E i \in 1..(Len(s) - 4) :
        /\ CharAt(s, i) # "\n"
        /\ \A j \in 1..4 : CharAt(s, i + j) = CharAt(s, i)

\* re.search(r'12345|abcde|qwert', s)
KeyboardSequence(s) ==
    Contains(s, "12345") \/ Contains(s, "abcde") \/ Contains(s, "qwert")

----------------------------------------------------------------------------
(* is_testing_article *)

test_keywords ==
    <<"test", "testing", "qa", "quality assurance", "dummy", "sample",
      "lorem ipsum", "placeholder", "debug", "dev", "development",
      "staging", "temp", "temporary", "draft", "wip", "work in progress",
      "do not publish", "internal", "beta", "alpha", "experiment",
      "trial", "demo", "example", "mock", "fake", "zzz", "xxx",
      "asdf", "qwerty", "123test", "test123", "testtest">>

BodyPreviewLength == 200    \* article_body[:200]

ShortBodyLength == 10       \* len(article_body.strip()) < 10

\* str(article.get(field, '')): a field holding None is a field the record
\* does not have
StrField(article, field) == IF field \in DOMAIN article THEN article[field] ELSE "None"

\* the keywords found in text, by their place in test_keywords
KeywordsIn(text) == {k \in 1..Len(test_keywords) : Contains(text, test_keywords[k])}

\* the keyword the for loop finds first
FirstKeyword(text) == test_keywords[CHOOSE k \in KeywordsIn(text) : \A j \in KeywordsIn(text) : k <= j]

Testing(reason) == [is_test |-> TRUE, reason |-> reason]

NotTesting == [is_test |-> FALSE, reason |-> ""]

\* checks 3 to 6 of is_testing_article (lines 224-258)
LaterChecks(article) ==
    LET article_id == Str(article.id)
        article_name == Lower(StrField(article, "name"))
        article_body == Lower(StrField(article, "body"))
    IN  IF WordThenDigit(Lower(article_id), "test")
        THEN Testing("Article ID follows pattern 'test' + numbers (e.g., test123)")
        ELSE IF DigitThenWord(Lower(article_id), "test")
        THEN Testing("Article ID follows pattern numbers + 'test' (e.g., 123test)")
        ELSE IF WordThenDigit(article_id, "999")
        THEN Testing("Article ID starts with '999' which is commonly used for testing")
        ELSE IF WordThenDigit(article_id, "000")
        THEN Testing("Article ID starts with '000' which is commonly used for testing")
        ELSE IF Contains(article_id, "123456789")
        THEN Testing("Article ID contains sequential numbers (123456789) which suggests testing")
        ELSE IF Contains(article_id, "987654321")
        THEN Testing("Article ID contains reverse sequential numbers (987654321) which suggests testing")
        ELSE IF Len(Strip(article_body)) < ShortBodyLength
        THEN Testing("Article has very little content (less than 10 characters)")
        ELSE IF StartsWithFiller(article_name)
        THEN Testing("Title starts with a test-related word (test, sample, dummy, or placeholder)")
        ELSE IF RepeatedChars(article_name)
        THEN Testing("Title contains repeated characters (like 'aaaaa' or '11111') which suggests testing")
        ELSE IF KeyboardSequence(article_name)
        THEN Testing("Title contains keyboard sequences (12345, abcde, qwert) which suggests testing")
        ELSE NotTesting

\* A plausible slip: the body is searched for keywords before the title.
is_testing_article_body_first(article) ==
    LET article_name == Lower(StrField(article, "name"))
        body_preview == Prefix(Lower(StrField(article, "body")), BodyPreviewLength)
    IN  IF KeywordsIn(body_preview) # {}
        THEN Testing("Contains test-related word '" \o FirstKeyword(body_preview)
                        \o "' in the article content")
        ELSE IF KeywordsIn(article_name) # {}
        THEN Testing("Contains test-related word '" \o FirstKeyword(article_name) \o "' in the title")
        ELSE LaterChecks(article)

\* is_testing_article(article): the pair (is_test, reason) (lines 195-258)
is_testing_article(article) ==
    LET article_name == Lower(StrField(article, "name"))
        body_preview == Prefix(Lower(StrField(article, "body")), BodyPreviewLength)
    IN  IF KeywordsIn(article_name) # {}
        THEN Testing("Contains test-related word '" \o FirstKeyword(article_name) \o "' in the title")
        ELSE IF KeywordsIn(body_preview) # {}
        THEN Testing("Contains test-related word '" \o FirstKeyword(body_preview)
                        \o "' in the article content")
        ELSE LaterChecks(article)

\* is_testing_article called for each article of the list
ClassifyStep ==
    /\ filterPc = "start"
    /\ analysis' = [i \in 1..Len(input_articles) |-> is_testing_article(input_articles[i])]
    /\ filterPc' = "done"
    /\ UNCHANGED <<input_articles, api_call_log, http_trace>>
    /\ UNCHANGED <<cfgVars, cmpVars, fetchVars, batchVars, uiVars, pageVars>>

----------------------------------------------------------------------------
(* clean_html_to_markdown, is_empty_article and filter_articles *)

RECURSIVE StripTags(_, _, _)
\* the text of s from character i on, without its tags; inside tells
\* whether character i is within a tag
StripTags(s, i, inside) ==
    IF i > Len(s) THEN ""
    ELSE IF inside THEN StripTags(s, i + 1, CharAt(s, i) # ">")
    ELSE IF CharAt(s, i) = "<" THEN StripTags(s, i + 1, TRUE)
    ELSE CharAt(s, i) \o StripTags(s, i + 1, FALSE)

\* clean_html_to_markdown(html_content) for the bodies of the model, which
\* are plain words, alone or within paragraph tags: html2text gives the
\* text of the paragraphs, and the result is stripped (lines 161-188)
clean_html_to_markdown(html_content) ==
    IF html_content = "" THEN "" ELSE Strip(StripTags(html_content, 1, FALSE))

MinimalContentLength == 20    \* len(cleaned_content) < 20

Empty(reason) == [is_empty |-> TRUE, reason |-> reason]

NotEmpty == [is_empty |-> FALSE, reason |-> ""]

\* is_empty_article(article): the pair (is_empty, reason) (lines 261-277);
\* a body of None is a field the record does not have
is_empty_article(article) ==
    IF "body" \notin DOMAIN article \/ article.body = ""
    THEN Empty("Article has no content")
    ELSE LET cleaned_content == Strip(clean_html_to_markdown(article.body))
         IN  IF Len(cleaned_content) < MinimalContentLength
             THEN Empty("Article has minimal content")
             ELSE IF cleaned_content = ""
             THEN Empty("Article contains only whitespace after HTML cleaning")
             ELSE NotEmpty

\* A plausible slip: "and" for "or".
ShouldFilterBoth(ft, is_test, fe, is_empty) == (ft /\ is_test) /\ (fe /\ is_empty)

\* should_filter = (filter_testing and is_test) or (filter_empty and is_empty)
ShouldFilter(ft, is_test, fe, is_empty) == (ft /\ is_test) \/ (fe /\ is_empty)

\* the entry of analysis_results for one article (lines 345-370)
AnalysisOf(article, ft, fe) ==
    LET test == IF ft THEN is_testing_article(article) ELSE NotTesting
        empty == IF fe THEN is_empty_article(article) ELSE NotEmpty
    IN  [is_filtered |-> ShouldFilter(ft, test.is_test, fe, empty.is_empty),
         is_testing |-> test.is_test,
         is_empty |-> empty.is_empty,
         reasons |-> (IF test.is_test THEN <<"Testing: " \o test.reason>> ELSE <<>>)
                        \o (IF empty.is_empty THEN <<"Empty: " \o empty.reason>> ELSE <<>>),
         article |-> article]

RECURSIVE FilterLoop(_, _, _, _, _)
\* the for loop of filter_articles from article k on, acc the three lists
\* built so far (lines 343-376)
FilterLoop(articles, ft, fe, k, acc) ==
    IF k > Len(articles) THEN acc
    ELSE LET entry == AnalysisOf(articles[k], ft, fe)
         IN  FilterLoop(articles, ft, fe, k + 1,
                [production |-> IF entry.is_filtered THEN acc.production
                                ELSE Append(acc.production, articles[k]),
                 filtered |-> IF entry.is_filtered THEN Append(acc.filtered, articles[k])
                              ELSE acc.filtered,
                 analysis |-> Append(acc.analysis, entry)])

\* filter_articles(articles, filter_testing, filter_empty): the three lists
\* it returns (lines 334-378)
filter_articles(articles, ft, fe) ==
    IF ~ft /\ ~fe THEN [production |-> articles, filtered |-> <<>>, analysis |-> <<>>]
    ELSE FilterLoop(articles, ft, fe, 1, [production |-> <<>>, filtered |-> <<>>, analysis |-> <<>>])

\* a call of filter_articles(input_articles, filter_testing, filter_empty)
FilterStep ==
    /\ filterPc = "filter"
    /\ \E result \in {filter_articles(input_articles, filter_testing, filter_empty)} :
           /\ production_articles' = result.production
           /\ filtered_articles' = result.filtered
           /\ analysis' = result.analysis
    /\ filterPc' = "filtered"
    /\ UNCHANGED <<input_articles, filter_testing, filter_empty, session_all_articles>>
    /\ UNCHANGED <<delete_checked, confirm_deletion, add_unchecked>>
    /\ UNCHANGED <<api_call_log, http_trace>>
    /\ UNCHANGED <<cfgVars, cmpVars, fetchVars, batchVars, uiVars>>

----------------------------------------------------------------------------
(* validate_ada_connection *)

\* what the GET request of the knowledge sources endpoint can end in
ValidateOutcomes ==
    {HttpStatus(200), HttpStatus(401), HttpStatus(403), HttpStatus(500), Timeout, ConnectionError}

\* the log entries one validate_ada_connection call appends: one for an
\* answer (lines 129-136), none in the except clauses (lines 147-152)
ValidateLogEntries(outcome) ==
    IF outcome.kind = "http"
    THEN <<LogEntry("GET", "knowledge/sources", outcome.status, outcome.status = 200,
                    [connection_test |-> IF outcome.status = 200 THEN "success" ELSE "failed"])>>
    ELSE <<>>

\* the pair validate_ada_connection returns (lines 117-152)
ValidateReturn(outcome) ==
    IF ~ConfigComplete THEN Failure("Missing instance name or API key")
    ELSE IF outcome.kind = "http"
    THEN CASE outcome.status = 200 -> [ok |-> TRUE, message |-> "Connection successful"]
           [] outcome.status = 401 -> Failure("Invalid API key")
           [] outcome.status = 403 -> Failure("Access forbidden - check API permissions")
           [] OTHER -> Failure("HTTP")
    ELSE IF outcome.kind = "timeout" THEN Failure("Connection timeout - check instance name")
    ELSE Failure("Connection error - check instance name and internet connection")

\* validate_ada_connection(instance_name, api_key)
ValidateConnection ==
    /\ sessPc = "validate"
    /\ Len(http_trace) < MaxCalls
    /\ \E outcome \in ValidateOutcomes :
          /\ ~ConfigComplete => outcome = ConnectionError
          /\ validation' = ValidateReturn(outcome)
          /\ http_trace' = IF ConfigComplete
                           THEN Append(http_trace, [method |-> "GET", index |-> Len(http_trace) + 1,
                                                    response |-> outcome])
                           ELSE http_trace
          /\ api_call_log' = IF ConfigComplete
                             THEN LogAll(api_call_log, ValidateLogEntries(outcome))
                             ELSE api_call_log
    /\ UNCHANGED <<recorded, ada_articles_result, sessPc>>
    /\ UNCHANGED <<cfgVars, cmpVars, fetchVars, batchVars, filterVars, pageVars>>

----------------------------------------------------------------------------
(* The comparison steps of the page: "Step 1: Get Articles from Ada" and
   "Step 2: Compare Grab vs Ada Articles" *)

\* A plausible slip: a failed retrieval empties the stored result.
StoreAlways(success, stored, result) ==
    IF success THEN [data |-> result.data, total |-> result.total] ELSE [data |-> <<>>, total |-> 0]

\* st.session_state.ada_articles_result after the retrieval (lines 1619-1622)
StoreOnSuccess(success, stored, result) ==
    IF success THEN [data |-> result.data, total |-> result.total] ELSE stored

\* the button of step 1 is pressed: get_ada_articles_robust is called
\* (lines 1609-1619)
Step1Click ==
    /\ sessPc = "idle"
    /\ Len(api_call_log) < MaxSessionLog
    /\ ConfigComplete
    /\ sessPc' = "step1"
    /\ fetchPc' = "start"
    /\ fetchResult' = NoResult
    /\ UNCHANGED <<server, page_count, all_articles, warnings, api_call_log, http_trace>>
    /\ UNCHANGED <<validation, recorded, ada_articles_result>>
    /\ UNCHANGED <<cfgVars, cmpVars, batchVars, filterVars, pageVars>>

\* get_ada_articles has returned: the handler of step 1 stores the result
\* of a successful retrieval (lines 1619-1653)
Step1Store ==
    /\ sessPc = "step1"
    /\ fetchPc = "done"
    /\ ada_articles_result' = StoreOnSuccess(fetchResult.ok, ada_articles_result, fetchResult)
    /\ sessPc' = "idle"
    /\ fetchPc' = "idle"
    /\ UNCHANGED <<server, page_count, all_articles, warnings, fetchResult, api_call_log, http_trace>>
    /\ UNCHANGED <<validation, recorded>>
    /\ UNCHANGED <<cfgVars, cmpVars, batchVars, filterVars, pageVars>>

\* A plausible slip, and the reading of the page as "reconcile what will be
\* uploaded": the production articles are handed to the comparison.
CompareSourceProduction == production_articles

\* the source list the compare step hands to compare_articles_detailed:
\* st.session_state.all_articles (line 1673)
CompareSource == session_all_articles

\* the button of step 2 is pressed: compare_articles_detailed is called with
\* the articles of the session and the stored destination result, and its
\* result is stored (lines 1664-1677)
Step2Compare ==
    /\ sessPc = "idle"
    /\ Len(api_call_log) < MaxSessionLog
    /\ ada_articles_result # NoResult
    /\ session_all_articles # <<>>
    /\ grab_articles' = CompareSource
    /\ ada_articles_data' = ada_articles_result
    /\ \E grabOrder \in Orders(GrabIds(CompareSource)),
          adaOrder \in Orders(AdaIds(ada_articles_result.data)) :
          comparison_result' =
              CompareResult(CompareSource, ada_articles_result, grabOrder, adaOrder)
    /\ api_call_log' = log_api_call(api_call_log,
                          CompareLogEntry(CompareSource, ada_articles_result.data))
    /\ cmpPc' = "compared"
    /\ UNCHANGED http_trace
    /\ UNCHANGED <<cfgVars, fetchVars, batchVars, uiVars, filterVars, pageVars>>

\* The destinations of a session: the list endpoint answers with one page
\* (the last one by its metadata) or cannot be reached
SessionServers ==
    {[pages |-> <<HttpResponse(200, d, "last")>>, tail |-> "empty"] :
        d \in {<<[id |-> StrId("42"), name |-> "How to pay", knowledge_source_id |-> "ks1"],
                 [id |-> IntId(9), name |-> "Old", knowledge_source_id |-> "ks1"]>>,
               <<[id |-> StrId("42"), name |-> "How to pay", knowledge_source_id |-> "ks1"]>>}}
        \cup {[pages |-> <<ConnectionError>>, tail |-> "empty"]}

\* Between two buttons the content of the destination changes: articles are
\* created or deleted there, by a batch of this page or by someone else
RemoteChange ==
    /\ sessPc = "idle"
    /\ \E srv \in SessionServers : srv # server /\ server' = srv
    /\ UNCHANGED <<page_count, all_articles, warnings, fetchResult, fetchPc>>
    /\ UNCHANGED <<api_call_log, http_trace>>
    /\ UNCHANGED <<cfgVars, cmpVars, batchVars, uiVars, filterVars, pageVars>>

----------------------------------------------------------------------------
(* The other buttons of the page: "Fetch Articles from Grab", the checkboxes
   and the button of step 2.3 (delete), and those of step 2.4 (add) *)

\* What extract_articles(fetch_grab_data(...)) can give: a production
\* article and a testing article; the production article alone; a production
\* article and an article whose id is the empty string; nothing (the request
\* failed)
GrabOutcomes ==
    {<<[id |-> IntId(42), name |-> "How to pay", body |-> "Open the app and pay."],
       [id |-> IntId(7), name |-> "Test promo", body |-> "Open the app and pay."]>>,
     <<[id |-> IntId(42), name |-> "How to pay", body |-> "Open the app and pay."]>>,
     <<[id |-> IntId(42), name |-> "How to pay", body |-> "Open the app and pay."],
       [id |-> StrId(""), name |-> "Fares", body |-> "Fares differ by city."]>>,
     <<>>}

\* the entry fetch_grab_data appends to the call log (lines 287-305)
GrabLogEntry(fetched) ==
    LogEntry("GET", "help.grab.com", IF fetched = <<>> THEN 0 ELSE 200, fetched # <<>>,
             [articles_count |-> Len(fetched)])

\* the button "Fetch Articles from Grab": the articles are fetched,
\* extracted and filtered, and the session keeps the lists (lines 1468-1487);
\* nothing is stored when no article was fetched
GrabFetchClick ==
    /\ sessPc = "idle"
    /\ Len(api_call_log) < MaxSessionLog
    /\ \E fetched \in GrabOutcomes :
          /\ api_call_log' = log_api_call(api_call_log, GrabLogEntry(fetched))
          /\ http_trace' = Append(http_trace, [method |-> "GET", url |-> "help.grab.com",
                                               response |-> HttpStatus(IF fetched = <<>> THEN 500 ELSE 200)])
          /\ IF fetched # <<>>
             THEN \E result \in {filter_articles(fetched, filter_testing, filter_empty)} :
                      /\ input_articles' = fetched
                      /\ session_all_articles' = fetched
                      /\ production_articles' = result.production
                      /\ filtered_articles' = result.filtered
                      /\ analysis' = result.analysis
             ELSE UNCHANGED <<input_articles, session_all_articles, production_articles,
                              filtered_articles, analysis>>
    /\ UNCHANGED <<filterPc, filter_testing, filter_empty, delete_checked, confirm_deletion, add_unchecked>>
    /\ UNCHANGED <<cfgVars, cmpVars, fetchVars, batchVars, uiVars>>

\* articles_to_delete of the stored comparison (line 1707), empty when no
\* comparison is stored
ArticlesToDelete ==
    IF comparison_result = NoResult THEN <<>> ELSE comparison_result.articles_to_delete

\* selected_for_deletion (lines 1755-1758): the articles of articles_to_delete
\* whose checkbox is ticked
SelectedForDeletion ==
    SelectSeq(ArticlesToDelete, LAMBDA article : Str(article.id) \in delete_checked)

\* a checkbox "delete_<id>" of step 2.3 is ticked or unticked (lines 1723-1727)
DeleteToggle ==
    /\ sessPc = "idle"
    /\ \E i \in 1..Len(ArticlesToDelete) :
          LET key == Str(ArticlesToDelete[i].id)
          IN  delete_checked' = IF key \in delete_checked THEN delete_checked \ {key}
                                ELSE delete_checked \cup {key}
    /\ UNCHANGED <<filter_testing, filter_empty, session_all_articles, production_articles,
                   filtered_articles, confirm_deletion, add_unchecked>>
    /\ UNCHANGED <<api_call_log, http_trace>>
    /\ UNCHANGED <<cfgVars, cmpVars, fetchVars, batchVars, uiVars, filterVars>>

\* the checkbox "I understand this will permanently delete ..." is ticked or
\* unticked; it is shown while articles are selected (lines 1760-1763)
ConfirmToggle ==
    /\ sessPc = "idle"
    /\ SelectedForDeletion # <<>>
    /\ confirm_deletion' = ~confirm_deletion
    /\ UNCHANGED <<filter_testing, filter_empty, session_all_articles, production_articles,
                   filtered_articles, delete_checked, add_unchecked>>
    /\ UNCHANGED <<api_call_log, http_trace>>
    /\ UNCHANGED <<cfgVars, cmpVars, fetchVars, batchVars, uiVars, filterVars>>

\* A plausible slip: the button is shown without the confirmation.
DeleteButtonUnconfirmed == SelectedForDeletion # <<>>

\* the button "Delete Selected Articles from Ada" is shown (lines 1706, 1760,
\* 1763-1764)
DeleteButtonShown == SelectedForDeletion # <<>> /\ confirm_deletion

\* a bulk operation is called by a button of the page
BatchCall(kind, list) ==
    /\ batchKind' = kind
    /\ items' = list
    /\ ada_articles' = <<>>
    /\ idx' = 0
    /\ successful' = <<>>
    /\ failed' = <<>>
    /\ progress' = <<0, 1>>
    /\ metrics' = NoResult
    /\ batchResult' = NoResult
    /\ batchPc' = "start"

\* the button "Delete Selected Articles from Ada" is pressed:
\* bulk_delete_ada_articles is called with the ids of the selected articles
\* (lines 1764-1768)
DeleteClick ==
    /\ sessPc = "idle"
    /\ Len(api_call_log) < MaxActLog
    /\ DeleteButtonShown
    /\ BatchCall("delete", [i \in 1..Len(SelectedForDeletion) |-> SelectedForDeletion[i].id])
    /\ sessPc' = "step3"
    /\ UNCHANGED <<options, validation, recorded, ada_articles_result>>
    /\ UNCHANGED <<api_call_log, http_trace>>
    /\ UNCHANGED <<cfgVars, cmpVars, fetchVars, filterVars, pageVars>>

\* The destination after a batch: an article whose deletion succeeded is no
\* longer listed; an article whose creation succeeded is listed with the
\* fields of its payload (the destination keeps the id it was given), in
\* place of an article with the same id
DestinationAfter(data, kind, done) ==
    IF kind = "delete"
    THEN SelectSeq(data, LAMBDA article : AdaKey(article) \notin {Str(done[k]) : k \in 1..Len(done)})
    ELSE SelectSeq(data, LAMBDA article :
                AdaKey(article) \notin {AdaKey(done[k].article) : k \in 1..Len(done)})
            \o [k \in 1..Len(done) |-> done[k].article]

\* bulk_delete_ada_articles or create_articles_individually_with_status has
\* returned: the handler shows the report (lines 1768-1792 and 1909-1951);
\* the comparison and the checkboxes are left as they are
BatchDone ==
    /\ sessPc \in {"step3", "step4"}
    /\ batchPc = "done"
    /\ sessPc' = "idle"
    /\ batchPc' = "idle"
    /\ server' = IF ServerResponse(server, 1).kind = "http"
                 THEN [pages |-> <<HttpResponse(200,
                                    DestinationAfter(ServerResponse(server, 1).data, batchKind, successful),
                                    "last")>>,
                       tail |-> "empty"]
                 ELSE server
    /\ UNCHANGED <<page_count, all_articles, warnings, fetchResult, fetchPc>>
    /\ UNCHANGED <<batchKind, items, options, ada_articles, idx, successful, failed, progress,
                   metrics, batchResult>>
    /\ UNCHANGED <<validation, recorded, ada_articles_result, api_call_log, http_trace>>
    /\ UNCHANGED <<cfgVars, cmpVars, filterVars, pageVars>>

\* articles_to_add of the stored comparison (line 1803)
ArticlesToAdd ==
    IF comparison_result = NoResult THEN <<>> ELSE comparison_result.articles_to_add

\* articles_to_add_filtered (lines 1811-1819): the articles of articles_to_add
\* that are production articles (production_articles is in the session
\* state when all_articles is)
ArticlesToAddFiltered ==
    IF session_all_articles = <<>> THEN ArticlesToAdd
    ELSE SelectSeq(ArticlesToAdd, LAMBDA article :
            Str(article.id) \in {Str(production_articles[i].id) : i \in 1..Len(production_articles)})

\* selected_for_addition (lines 1866-1869): the checkboxes are ticked unless
\* the operator unticked them
SelectedForAddition ==
    SelectSeq(ArticlesToAddFiltered, LAMBDA article : Str(article.id) \notin add_unchecked)

\* a checkbox "add_<id>" of step 2.4 is unticked or ticked (lines 1832-1836)
AddToggle ==
    /\ sessPc = "idle"
    /\ \E i \in 1..Len(ArticlesToAddFiltered) :
          LET key == Str(ArticlesToAddFiltered[i].id)
          IN  add_unchecked' = IF key \in add_unchecked THEN add_unchecked \ {key}
                               ELSE add_unchecked \cup {key}
    /\ UNCHANGED <<filter_testing, filter_empty, session_all_articles, production_articles,
                   filtered_articles, delete_checked, confirm_deletion>>
    /\ UNCHANGED <<api_call_log, http_trace>>
    /\ UNCHANGED <<cfgVars, cmpVars, fetchVars, batchVars, uiVars, filterVars>>

\* the button "Add Selected Articles to Ada" is pressed with a knowledge
\* source id: create_articles_individually_with_status is called with the
\* selected articles (lines 1903-1918)
AddClick ==
    /\ sessPc = "idle"
    /\ Len(api_call_log) < MaxActLog
    /\ SelectedForAddition # <<>>
    /\ knowledge_source_id # ""
    /\ BatchCall("create", SelectedForAddition)
    /\ sessPc' = "step4"
    /\ UNCHANGED <<options, validation, recorded, ada_articles_result>>
    /\ UNCHANGED <<api_call_log, http_trace>>
    /\ UNCHANGED <<cfgVars, cmpVars, fetchVars, filterVars, pageVars>>

----------------------------------------------------------------------------
(* States in which an operation is not running *)

FetchIdle ==
    /\ server = [pages |-> <<>>, tail |-> "empty"]
    /\ page_count = 0
    /\ all_articles = <<>>
    /\ warnings = <<>>
    /\ fetchResult = NoResult
    /\ fetchPc = "idle"

DefaultOptions ==
    [user_type |-> "driver", language_locale |-> "en-ph", override_language |-> "", name_prefix |-> ""]

BatchIdle ==
    /\ batchKind = "none"
    /\ items = <<>>
    /\ options = DefaultOptions
    /\ ada_articles = <<>>
    /\ idx = 0
    /\ successful = <<>>
    /\ failed = <<>>
    /\ progress = <<0, 1>>
    /\ metrics = NoResult
    /\ batchResult = NoResult
    /\ batchPc = "idle"

CompareIdle ==
    /\ grab_articles = <<>>
    /\ ada_articles_data = [data |-> <<>>]
    /\ comparison_result = NoResult
    /\ cmpPc = "off"

UiIdle ==
    /\ validation = NoResult
    /\ recorded = <<>>
    /\ ada_articles_result = NoResult
    /\ sessPc = "off"

FilterIdle ==
    /\ input_articles = <<>>
    /\ analysis = <<>>
    /\ filterPc = "off"

PageIdle ==
    /\ filter_testing = TRUE
    /\ filter_empty = TRUE
    /\ session_all_articles = <<>>
    /\ production_articles = <<>>
    /\ filtered_articles = <<>>
    /\ delete_checked = {}
    /\ confirm_deletion = FALSE
    /\ add_unchecked = {}

----------------------------------------------------------------------------
(* Specification of compare_articles_detailed *)

InitCompare ==
    /\ api_call_log = <<>>
    /\ http_trace = <<>>
    /\ instance_name = "grab"
    /\ api_key = "key"
    /\ knowledge_source_id = "ks1"
    /\ grab_articles \in SeqsUpTo(GrabArticleValues, MaxSrc)
    /\ ada_articles_data \in {[data |-> d] : d \in SeqsUpTo(AdaArticleValues, MaxDst)}
    /\ comparison_result = NoResult
    /\ cmpPc = "idle"
    /\ FetchIdle
    /\ BatchIdle
    /\ UiIdle
    /\ FilterIdle
    /\ PageIdle

NextCompare == CompareStep

SpecCompare == InitCompare /\ [][NextCompare]_vars

----------------------------------------------------------------------------
(* Specification of get_ada_articles *)

Servers ==
    {[pages |-> ps, tail |-> t] : ps \in SeqsUpTo(PageResponses, MaxScript), t \in {"empty", "full", "full_to_limit"}}

\* The service is not contacted when the configuration is incomplete, so
\* those calls are started against one service only.
InitFetch ==
    /\ api_call_log = <<>>
    /\ http_trace = <<>>
    /\ knowledge_source_id \in {"", "ks1"}
    /\ server \in Servers
    /\ \/ instance_name = "grab" /\ api_key = "key"
       \/ /\ server = [pages |-> <<>>, tail |-> "empty"]
          /\ \E c \in {<<"", "key">>, <<"grab", "">>, <<"", "">>} :
                instance_name = c[1] /\ api_key = c[2]
    /\ page_count = 0
    /\ all_articles = <<>>
    /\ warnings = <<>>
    /\ fetchResult = NoResult
    /\ fetchPc = "start"
    /\ CompareIdle
    /\ BatchIdle
    /\ UiIdle
    /\ FilterIdle
    /\ PageIdle

NextFetch == FetchStart \/ FetchPage

SpecFetch == InitFetch /\ [][NextFetch]_vars

----------------------------------------------------------------------------
(* Specification of the two bulk operations *)

\* the articles given to create_articles_individually_with_status; the
\* second one has no name
CreateInput(n) ==
    [i \in 1..n |-> [id |-> IntId(i), name |-> IF i = 2 THEN "" ELSE "How to pay", body |-> "text"]]

\* the ids given to bulk_delete_ada_articles; with emptyAt in 1..n the id at
\* that place is empty
DeleteInput(n, emptyAt) ==
    [i \in 1..n |-> IF i = emptyAt THEN StrId("") ELSE StrId(IntToStr(i))]

\* The remote service is not contacted when the configuration is incomplete,
\* so those calls are started with one input only.
InitBatch ==
    /\ api_call_log = <<>>
    /\ http_trace = <<>>
    /\ batchKind \in {"create", "delete"}
    /\ \E n \in 0..MaxItems, emptyAt \in {0, 2} :
          /\ items = IF batchKind = "create" THEN CreateInput(n) ELSE DeleteInput(n, emptyAt)
          /\ batchKind = "create" => emptyAt = 0
          /\ \/ instance_name = "grab" /\ api_key = "key" /\ knowledge_source_id = "ks1"
             \/ /\ n = 2 /\ emptyAt = 0
                /\ \E c \in {<<"", "key", "ks1">>, <<"grab", "", "ks1">>, <<"grab", "key", "">>} :
                      instance_name = c[1] /\ api_key = c[2] /\ knowledge_source_id = c[3]
    /\ options = DefaultOptions
    /\ ada_articles = <<>>
    /\ idx = 0
    /\ successful = <<>>
    /\ failed = <<>>
    /\ progress = <<0, 1>>
    /\ metrics = NoResult
    /\ batchResult = NoResult
    /\ batchPc = "start"
    /\ CompareIdle
    /\ FetchIdle
    /\ UiIdle
    /\ FilterIdle
    /\ PageIdle

NextBatch == BatchStart \/ BatchProgress \/ BatchItem

SpecBatch == InitBatch /\ [][NextBatch]_vars

----------------------------------------------------------------------------
(* Specification of validate_ada_connection, called up to MaxCalls times *)

InitValidate ==
    /\ api_call_log = <<>>
    /\ http_trace = <<>>
    /\ \E c \in {<<"grab", "key">>, <<"", "key">>, <<"grab", "">>, <<"", "">>} :
          instance_name = c[1] /\ api_key = c[2]
    /\ knowledge_source_id = "ks1"
    /\ validation = NoResult
    /\ recorded = <<>>
    /\ ada_articles_result = NoResult
    /\ sessPc = "validate"
    /\ CompareIdle
    /\ FetchIdle
    /\ BatchIdle
    /\ FilterIdle
    /\ PageIdle

NextValidate == ValidateConnection

SpecValidate == InitValidate /\ [][NextValidate]_vars

----------------------------------------------------------------------------
(* Specification of the call log: log_api_call and clear_api_log in any order *)

InitLog ==
    /\ api_call_log = <<>>
    /\ http_trace = <<>>
    /\ instance_name = "grab"
    /\ api_key = "key"
    /\ knowledge_source_id = "ks1"
    /\ validation = NoResult
    /\ recorded = <<>>
    /\ ada_articles_result = NoResult
    /\ sessPc = "log"
    /\ CompareIdle
    /\ FetchIdle
    /\ BatchIdle
    /\ FilterIdle
    /\ PageIdle

NextLog == LogApiCall \/ ClearApiLog

SpecLog == InitLog /\ [][NextLog]_vars

----------------------------------------------------------------------------
(* Specification of one call of any of the three remote operations *)

InitOps == InitFetch \/ InitBatch

NextOps == NextFetch \/ NextBatch

SpecOps == InitOps /\ [][NextOps]_vars

----------------------------------------------------------------------------
(* Specification of convert_to_ada_format *)

\* The articles of extract_articles given to the conversion: the second has
\* an empty name and an empty body, the third has None for both
ConvertArticleValues ==
    {[id |-> IntId(7), name |-> "How to pay", body |-> "Open the app"],
     [id |-> StrId("a-9"), name |-> "", body |-> ""],
     [id |-> IntId(12)]}

\* user_type, language_locale, override_language and name_prefix; None and ""
\* are both ""
ConvertOptions ==
    [user_type : {"passenger", "driver", "moveitpassenger", "moveitdriver"},
     language_locale : {"en-ph", "id-id"},
     override_language : {"", "en"},
     name_prefix : {"", "[LIVE] "}]

InitConvert ==
    /\ api_call_log = <<>>
    /\ http_trace = <<>>
    /\ instance_name = "grab"
    /\ api_key = "key"
    /\ knowledge_source_id \in {"ks1", "ks2"}
    /\ batchKind = "convert"
    /\ items \in SeqsUpTo(ConvertArticleValues, MaxConvert)
    /\ options \in ConvertOptions
    /\ ada_articles = <<>>
    /\ idx = 0
    /\ successful = <<>>
    /\ failed = <<>>
    /\ progress = <<0, 1>>
    /\ metrics = NoResult
    /\ batchResult = NoResult
    /\ batchPc = "convert"
    /\ CompareIdle
    /\ FetchIdle
    /\ UiIdle
    /\ FilterIdle
    /\ PageIdle

NextConvert == ConvertStep

SpecConvert == InitConvert /\ [][NextConvert]_vars

----------------------------------------------------------------------------
(* Specification of is_testing_article *)

RECURSIVE Words(_)
\* n times "word ", a text of 5 * n characters without any keyword
Words(n) == IF n = 0 THEN "" ELSE "word " \o Words(n - 1)

ClassifyNames == {"Test Article", "How to pay", "Demo of a dummy", "Heeeeello", "Guide abcde"}

\* the last three bodies have the word "test" at the characters 197-200,
\* 198-201 and 201-204
ClassifyBodies ==
    {"hi", "This is a sample text", "Open the app and tap Pay",
     Words(39) \o "xtest", Words(39) \o "xytest", Words(40) \o "test"}

ClassifyIds ==
    {IntId(7), StrId("test123"), StrId("42TEST"), IntId(9991), StrId("0001"),
     IntId(123456789), IntId(987654321)}

\* The articles given to the classifier; name or body may be None
ClassifyArticleValues ==
    {[id |-> i, name |-> n, body |-> b] : i \in ClassifyIds, n \in ClassifyNames, b \in ClassifyBodies}
        \cup {[id |-> i, body |-> b] : i \in ClassifyIds, b \in ClassifyBodies}
        \cup {[id |-> i, name |-> n] : i \in ClassifyIds, n \in ClassifyNames}

InitClassify ==
    /\ api_call_log = <<>>
    /\ http_trace = <<>>
    /\ instance_name = "grab"
    /\ api_key = "key"
    /\ knowledge_source_id = "ks1"
    /\ input_articles \in {<<a>> : a \in ClassifyArticleValues}
    /\ analysis = <<>>
    /\ filterPc = "start"
    /\ CompareIdle
    /\ FetchIdle
    /\ BatchIdle
    /\ UiIdle
    /\ PageIdle

NextClassify == ClassifyStep

SpecClassify == InitClassify /\ [][NextClassify]_vars

----------------------------------------------------------------------------
(* Specification of a session of the comparison steps *)

InitSession ==
    /\ api_call_log = <<>>
    /\ http_trace = <<>>
    /\ instance_name = "grab"
    /\ api_key = "key"
    /\ knowledge_source_id \in {"", "ks1"}
    /\ grab_articles = <<>>
    /\ ada_articles_data = [data |-> <<>>]
    /\ comparison_result = NoResult
    /\ cmpPc = "idle"
    /\ server \in SessionServers
    /\ page_count = 0
    /\ all_articles = <<>>
    /\ warnings = <<>>
    /\ fetchResult = NoResult
    /\ fetchPc = "idle"
    /\ validation = NoResult
    /\ recorded = <<>>
    /\ ada_articles_result = NoResult
    /\ sessPc = "idle"
    /\ BatchIdle
    /\ FilterIdle
    /\ filter_testing = TRUE
    /\ filter_empty = TRUE
    /\ session_all_articles = <<[id |-> IntId(42), name |-> "How to pay"], [id |-> IntId(7), name |-> "Promo"]>>
    /\ production_articles = session_all_articles
    /\ filtered_articles = <<>>
    /\ delete_checked = {}
    /\ confirm_deletion = FALSE
    /\ add_unchecked = {}

NextSession ==
    \/ Step1Click
    \/ FetchStart
    \/ FetchPage
    \/ Step1Store
    \/ Step2Compare
    \/ RemoteChange

SpecSession == InitSession /\ [][NextSession]_vars

----------------------------------------------------------------------------
(* Specification of a session of the whole page: fetch from Grab, retrieve
   from Ada, compare, delete, add *)

\* The destinations at the start of a session: one page (the last one by its
\* metadata) with an article of the source, an article the source does not
\* have, and an article of another knowledge source
SyncServers ==
    {[pages |-> <<HttpResponse(200, d, "last")>>, tail |-> "empty"] :
        d \in {<<[id |-> StrId("42"), name |-> "How to pay", knowledge_source_id |-> "ks1"],
                 [id |-> IntId(9), name |-> "Old", knowledge_source_id |-> "ks1"]>>,
               <<[id |-> IntId(9), name |-> "Old", knowledge_source_id |-> "ks1"],
                 [id |-> StrId("b1"), name |-> "B1", knowledge_source_id |-> "ks2"]>>}}

InitSync ==
    /\ api_call_log = <<>>
    /\ http_trace = <<>>
    /\ instance_name = "grab"
    /\ api_key = "key"
    /\ knowledge_source_id \in {"", "ks1"}
    /\ CompareIdle
    /\ server \in SyncServers
    /\ page_count = 0
    /\ all_articles = <<>>
    /\ warnings = <<>>
    /\ fetchResult = NoResult
    /\ fetchPc = "idle"
    /\ validation = NoResult
    /\ recorded = <<>>
    /\ ada_articles_result = NoResult
    /\ sessPc = "idle"
    /\ BatchIdle
    /\ FilterIdle
    /\ PageIdle

NextSync ==
    \/ GrabFetchClick
    \/ Step1Click
    \/ FetchStart
    \/ FetchPage
    \/ Step1Store
    \/ Step2Compare
    \/ DeleteToggle
    \/ ConfirmToggle
    \/ DeleteClick
    \/ AddToggle
    \/ AddClick
    \/ BatchStart
    \/ BatchProgress
    \/ BatchItem
    \/ BatchDone

SpecSync == InitSync /\ [][NextSync]_vars

----------------------------------------------------------------------------
(* Specification of filter_articles *)

MaxFiltered == 3    \* longest list given to filter_articles

\* The articles given to filter_articles: a production article, a testing
\* article with content, an article with too little content that is no
\* testing article, a testing article without content, and an article whose
\* body is None
FilterArticleValues ==
    {[id |-> IntId(101), name |-> "How to pay", body |-> "<p>Open the app and choose a payment method.</p>"],
     [id |-> IntId(102), name |-> "Test article", body |-> "Open the app and choose a payment method."],
     [id |-> IntId(103), name |-> "Fares", body |-> "<p>Fares differ.</p>"],
     [id |-> IntId(104), name |-> "Dummy", body |-> ""],
     [id |-> IntId(105), name |-> "Promo"]}

InitFilter ==
    /\ api_call_log = <<>>
    /\ http_trace = <<>>
    /\ instance_name = "grab"
    /\ api_key = "key"
    /\ knowledge_source_id = "ks1"
    /\ input_articles \in SeqsUpTo(FilterArticleValues, MaxFiltered)
    /\ analysis = <<>>
    /\ filterPc = "filter"
    /\ filter_testing \in BOOLEAN
    /\ filter_empty \in BOOLEAN
    /\ session_all_articles = <<>>
    /\ production_articles = <<>>
    /\ filtered_articles = <<>>
    /\ delete_checked = {}
    /\ confirm_deletion = FALSE
    /\ add_unchecked = {}
    /\ CompareIdle
    /\ FetchIdle
    /\ BatchIdle
    /\ UiIdle

NextFilter == FilterStep

SpecFilter == InitFilter /\ [][NextFilter]_vars

----------------------------------------------------------------------------
(* Properties of compare_articles_detailed *)

\* The string form of an id, as the claims speak of it
StringForm(x) ==
    CASE x.t = "int" -> IntToStr(x.v)
      [] x.t = "str" -> x.v
      [] x.t = "none" -> "None"

\* The identifier of a record: the string form of its id, "" when it has none
Ident(a) == IF "id" \in DOMAIN a THEN StringForm(a.id) ELSE ""

Idents(articles) == {Ident(articles[i]) : i \in 1..Len(articles)}

ExistingGrabSide(r) == [i \in 1..Len(r.articles_existing) |-> r.articles_existing[i].grab_article]

ExistingAdaSide(r) == [i \in 1..Len(r.articles_existing) |-> r.articles_existing[i].ada_article]

----------------------------------------------------------------------------
(* Properties of get_ada_articles *)

\* k copies of page, one after the other
Repeat(page, k) == [i \in 1..(k * Len(page)) |-> page[((i - 1) % Len(page)) + 1]]

RECURSIVE Flatten(_)
Flatten(pages) == IF pages = <<>> THEN <<>> ELSE Head(pages).data \o Flatten(Tail(pages))

Min(a, b) == IF a < b THEN a ELSE b

\* The page requests the call log holds
PageEntries(log) == {i \in 1..Len(log) : log[i].url = "articles/?page"}

\* The service holds k non-empty pages, all answered with status 200 and none
\* with metadata declaring the end, and answers with empty pages after them
NonEmptyPagesThenEmpty ==
    /\ server.tail = "empty"
    /\ \A i \in 1..Len(server.pages) :
          /\ server.pages[i].kind = "http"
          /\ server.pages[i].status = 200
          /\ server.pages[i].data # <<>>
          /\ server.pages[i].meta \in {"absent", "more"}

\* The service holds k full pages, all answered with status 200 and metadata
\* declaring further pages, and answers with empty pages after them
FullPagesThenEmpty ==
    /\ server.tail \in {"empty", "full_to_limit"}
    /\ \A i \in 1..Len(server.pages) : server.pages[i] = HttpResponse(200, FullPage, "more")

\* the number k of those full pages
FullPageCount == IF server.tail = "full_to_limit" THEN MaxPageLimit ELSE Len(server.pages)

NeverEnding ==
    /\ server.tail = "full"
    /\ \A i \in 1..Len(server.pages) :
          /\ server.pages[i].kind = "http"
          /\ server.pages[i].status = 200
          /\ server.pages[i].data # <<>>
          /\ server.pages[i].meta \in {"absent", "more"}

\* The service answers every request with a full page whose metadata
\* declares further pages
FullPagesForEver ==
    /\ server.tail = "full"
    /\ \A i \in 1..Len(server.pages) : server.pages[i] = HttpResponse(200, FullPage, "more")

C8_Non200Fails ==
    (fetchPc = "done" /\ \E i \in 1..Len(http_trace) :
                            /\ http_trace[i].response.kind = "http"
                            /\ http_trace[i].response.status # 200)
        => ~fetchResult.ok

----------------------------------------------------------------------------
(* Properties of the bulk operations *)

\* the items recorded as successful so far
SuccessItems ==
    {IF batchKind = "create" THEN successful[k].article ELSE successful[k] : k \in 1..Len(successful)}

\* the items recorded as failed so far
FailedItems ==
    {IF batchKind = "create" THEN failed[k].article ELSE failed[k].article_id : k \in 1..Len(failed)}

\* the status that makes a call of the running operation a success
SuccessStatuses == IF batchKind = "create" THEN {200, 201} ELSE {200, 204}

CallSucceeded(response) == response.kind = "http" /\ response.status \in SuccessStatuses

AllConfigured == instance_name # "" /\ api_key # "" /\ knowledge_source_id # ""

\* C4: a failed item does not stop the batch: when the operation returns its
\* report every item has been processed, every item with an id has been the
\* subject of one request, and every item whose own request succeeded is
\* recorded as successful; five creates of which only the third gets a 500
\* are reported as successful = 4, failed = 1.
C4_BatchIsolation ==
    /\ \A k \in 1..Len(http_trace) :
          CallSucceeded(http_trace[k].response) => Work[http_trace[k].index] \in SuccessItems
    /\ (batchPc = "done" /\ batchResult.ok) =>
          /\ idx = Len(Work)
          /\ {http_trace[k].index : k \in 1..Len(http_trace)}
                = {i \in 1..Len(Work) : batchKind = "create" \/ Work[i] # StrId("")}
          /\ (/\ batchKind = "create"
              /\ Len(items) = 5
              /\ \A k \in 1..Len(http_trace) :
                    IF k = 3 THEN http_trace[k].response = HttpStatus(500)
                    ELSE CallSucceeded(http_trace[k].response))
              => (batchResult.successful = 4 /\ batchResult.failed = 1)

\* C4 witness: five creates, the third answered with 500, reported 4 and 1
C4_Witness ==
    /\ batchPc = "done"
    /\ batchKind = "create"
    /\ Len(items) = 5
    /\ Len(http_trace) = 5
    /\ http_trace[3].response = HttpStatus(500)
    /\ \A k \in {1, 2, 4, 5} : CallSucceeded(http_trace[k].response)
    /\ batchResult.successful = 4
    /\ batchResult.failed = 1

\* C5, as claimed: with complete configuration every input list gets a
\* report with successful + failed = total_processed = length of the input.
C5_ReportForEveryInput ==
    (batchPc = "done" /\ AllConfigured) =>
        /\ batchResult.ok
        /\ batchResult.successful + batchResult.failed = batchResult.total_processed
        /\ batchResult.total_processed = Len(items)

\* C5, amended: with complete configuration every input list of
\* create_articles_individually_with_status and every non-empty input list of
\* bulk_delete_ada_articles gets a report with successful + failed =
\* total_processed = length of the input, and after each processed item the
\* running lists together hold as many items as were processed;
\* bulk_delete_ada_articles returns a failure, not a report, for the empty
\* list.
C5_ReportInvariant ==
    AllConfigured =>
        /\ batchPc \in {"loop", "call", "done"} => Len(successful) + Len(failed) = idx
        /\ (batchPc = "done" /\ (batchKind = "create" \/ items # <<>>)) =>
              /\ batchResult.ok
              /\ batchResult.successful = Len(successful)
              /\ batchResult.failed = Len(failed)
              /\ batchResult.successful + batchResult.failed = batchResult.total_processed
              /\ batchResult.total_processed = Len(items)
        /\ (batchPc = "done" /\ batchKind = "delete" /\ items = <<>>) => ~batchResult.ok

\* C5 witness: a delete batch of three ids ended with successes and failures
C5_Witness ==
    /\ batchPc = "done"
    /\ batchKind = "delete"
    /\ Len(items) = 3
    /\ batchResult.ok
    /\ batchResult.successful >= 1
    /\ batchResult.failed >= 1

DeleteEntries == {i \in 1..Len(api_call_log) : api_call_log[i].url = "articles/{id}"}

\* C10, as claimed: an id is recorded as successfully deleted if and only if
\* its DELETE request was answered with status 200 or 204, and the success
\* flag of its log entry agrees with the outcome returned.
C10_DeleteSuccessPredicate ==
    batchKind = "delete" =>
        /\ \A k \in 1..Len(http_trace) :
              LET r == http_trace[k].response
                  item == items[http_trace[k].index]
                  good == r.kind = "http" /\ r.status \in {200, 204}
              IN  /\ item \in SuccessItems <=> good
                  /\ item \in FailedItems <=> ~good
        /\ \A i \in DeleteEntries :
              api_call_log[i].success <=> api_call_log[i].ref.article_id \in SuccessItems

----------------------------------------------------------------------------
(* Properties of the call log *)

\* C11, as claimed: every step that issues a remote call appends at least
\* one entry to the call log, whether the call ends in a success status, an
\* error status, a timeout or a connection failure.
C11_EveryCallLogged ==
    [][Len(http_trace') > Len(http_trace) => Len(api_call_log') > Len(api_call_log)]_vars

\* C12: the call log holds at most 50 entries, and they are the most recent
\* min(50, k) of the k entries recorded since the last clear_api_log, in the
\* order they were recorded (none after a clear_api_log).
C12_BoundedLog ==
    sessPc = "log" =>
        LET k == Len(recorded)
            m == IF k < 50 THEN k ELSE 50
        IN  /\ Len(api_call_log) <= 50
            /\ api_call_log = [i \in 1..m |-> recorded[k - m + i]]

\* C12 witness: 52 entries were recorded and the log holds the last 50 of
\* them, the two oldest dropped
C12_Witness ==
    /\ sessPc = "log"
    /\ Len(recorded) = 52
    /\ Len(api_call_log) = 50
    /\ api_call_log[1] = recorded[3]
    /\ api_call_log[50] = recorded[52]

----------------------------------------------------------------------------
(* Properties of the configuration checks *)

\* the configuration the running operation needs is incomplete: instance
\* name or API key missing, or the knowledge-source id for a creation
ConfigMissing ==
    \/ instance_name = ""
    \/ api_key = ""
    \/ batchKind = "create" /\ knowledge_source_id = ""

\* C13: with incomplete configuration get_ada_articles,
\* bulk_delete_ada_articles and create_articles_individually_with_status
\* return a failure, and no step of theirs issues a remote call, processes an
\* item or changes the call log.
C13_ConfigBeforeNetwork ==
    /\ [](ConfigMissing =>
            /\ fetchPc = "done" => ~fetchResult.ok
            /\ batchPc = "done" => ~batchResult.ok
            /\ fetchPc # "loop" /\ batchPc \notin {"loop", "call"}
            /\ http_trace = <<>>
            /\ idx = 0 /\ successful = <<>> /\ failed = <<>> /\ ada_articles = <<>>
            /\ page_count = 0 /\ all_articles = <<>>)
    /\ [][ConfigMissing => UNCHANGED <<api_call_log, http_trace>>]_vars

\* C13 witness: a creation without instance name has returned its failure,
\* the call log and the remote service untouched
C13_Witness ==
    /\ batchKind = "create"
    /\ instance_name = ""
    /\ items # <<>>
    /\ batchPc = "done"
    /\ ~batchResult.ok
    /\ api_call_log = <<>>
    /\ http_trace = <<>>

----------------------------------------------------------------------------
(* Properties of convert_to_ada_format *)

\* the url the claim gives for a user type, a locale and the string of an id
ClaimedUrl(userType, locale, id) ==
    CASE userType = "moveitpassenger" -> "https://help.moveit.com.ph/passenger/" \o locale \o "/" \o id
      [] userType = "moveitdriver" -> "https://help.moveit.com.ph/driver/" \o locale \o "/" \o id
      [] OTHER -> "https://help.grab.com/" \o userType \o "/" \o locale \o "/" \o id

\* C14: convert_to_ada_format yields one payload per input article, in input
\* order, with id = str(article id), name = prefix + (article name, or
\* "Article {id}" when the name is empty), language = the override language
\* when non-empty, else the locale, the knowledge_source_id given, content =
\* the body or "", and the url of the user type's domain; article 7 "How to
\* pay" for driver, en-ph, ks1 and prefix "[LIVE] " becomes id "7", name
\* "[LIVE] How to pay", url https://help.grab.com/driver/en-ph/7.
C14_PayloadConstruction ==
    batchPc = "converted" =>
        /\ Len(ada_articles) = Len(items)
        /\ \A i \in 1..Len(items) :
              LET a == items[i]
                  p == ada_articles[i]
                  id == StringForm(a.id)
                  name == IF "name" \in DOMAIN a THEN a.name ELSE ""
                  body == IF "body" \in DOMAIN a THEN a.body ELSE ""
              IN  /\ p.id = StrId(id)
                  /\ p.name = options.name_prefix \o (IF name = "" THEN "Article " \o id ELSE name)
                  /\ p.language = (IF options.override_language = "" THEN options.language_locale
                                   ELSE options.override_language)
                  /\ p.knowledge_source_id = knowledge_source_id
                  /\ p.content = body
                  /\ p.url = ClaimedUrl(options.user_type, options.language_locale, id)
        /\ (/\ items # <<>>
            /\ items[1].id = IntId(7)
            /\ options = [user_type |-> "driver", language_locale |-> "en-ph",
                          override_language |-> "", name_prefix |-> "[LIVE] "]
            /\ knowledge_source_id = "ks1")
              => /\ ada_articles[1].id = StrId("7")
                 /\ ada_articles[1].name = "[LIVE] How to pay"
                 /\ ada_articles[1].url = "https://help.grab.com/driver/en-ph/7"
                 /\ ada_articles[1].language = "en-ph"
                 /\ ada_articles[1].knowledge_source_id = "ks1"

\* C14 witness: an article without name was converted after article 7 for a
\* moveitdriver, with a prefix and an override language
C14_Witness ==
    /\ batchPc = "converted"
    /\ Len(ada_articles) = 2
    /\ items[1].id = IntId(7)
    /\ "name" \notin DOMAIN items[2]
    /\ options.user_type = "moveitdriver"
    /\ options.name_prefix = "[LIVE] "
    /\ options.override_language = "en"
    /\ ada_articles[2].name = "[LIVE] Article 12"
    /\ ada_articles[2].url = "https://help.moveit.com.ph/driver/en-ph/12"

----------------------------------------------------------------------------
(* Properties of is_testing_article *)

\* The rules in the order the claim gives, each with whether it matches the
\* article and the reason it supplies
ClaimedRules(a) ==
    LET id == StringForm(a.id)
        name == Lower(StrField(a, "name"))
        body == Lower(StrField(a, "body"))
        preview == Prefix(body, 200)
    IN  <<[hit |-> KeywordsIn(name) # {},
           reason |-> IF KeywordsIn(name) # {}
                      THEN "Contains test-related word '" \o FirstKeyword(name) \o "' in the title"
                      ELSE ""],
          [hit |-> KeywordsIn(preview) # {},
           reason |-> IF KeywordsIn(preview) # {}
                      THEN "Contains test-related word '" \o FirstKeyword(preview)
                              \o "' in the article content"
                      ELSE ""],
          [hit |-> WordThenDigit(Lower(id), "test"),
           reason |-> "Article ID follows pattern 'test' + numbers (e.g., test123)"],
          [hit |-> DigitThenWord(Lower(id), "test"),
           reason |-> "Article ID follows pattern numbers + 'test' (e.g., 123test)"],
          [hit |-> WordThenDigit(id, "999"),
           reason |-> "Article ID starts with '999' which is commonly used for testing"],
          [hit |-> WordThenDigit(id, "000"),
           reason |-> "Article ID starts with '000' which is commonly used for testing"],
          [hit |-> Contains(id, "123456789"),
           reason |-> "Article ID contains sequential numbers (123456789) which suggests testing"],
          [hit |-> Contains(id, "987654321"),
           reason |-> "Article ID contains reverse sequential numbers (987654321) which suggests testing"],
          [hit |-> Len(Strip(body)) < 10,
           reason |-> "Article has very little content (less than 10 characters)"],
          [hit |-> StartsWithFiller(name),
           reason |-> "Title starts with a test-related word (test, sample, dummy, or placeholder)"],
          [hit |-> RepeatedChars(name),
           reason |-> "Title contains repeated characters (like 'aaaaa' or '11111') which suggests testing"],
          [hit |-> KeyboardSequence(name),
           reason |-> "Title contains keyboard sequences (12345, abcde, qwert) which suggests testing"]>>

\* C15: is_testing_article returns (True, reason of the first rule that
\* matches) in the order title keyword, body keyword in the first 200
\* characters, id patterns, short body, leading filler word, repeated
\* characters, keyboard sequence, and (False, "") when no rule matches; an
\* article named "Test Article" with body "hi" yields (True, "Contains
\* test-related word 'test' in the title") whatever its id.
C15_ClassifierRuleOrder ==
    filterPc = "done" =>
        \A i \in 1..Len(input_articles) :
            LET a == input_articles[i]
                rules == ClaimedRules(a)
                hits == {r \in 1..Len(rules) : rules[r].hit}
            IN  /\ hits = {} => analysis[i] = [is_test |-> FALSE, reason |-> ""]
                /\ hits # {} =>
                      analysis[i] = [is_test |-> TRUE,
                                     reason |-> rules[CHOOSE r \in hits : \A q \in hits : r <= q].reason]
                /\ ("name" \in DOMAIN a /\ "body" \in DOMAIN a /\ a.name = "Test Article" /\ a.body = "hi")
                      => analysis[i] = [is_test |-> TRUE,
                                        reason |-> "Contains test-related word 'test' in the title"]

\* C15 witness: "Test Article" with body "hi" and id test123, which the
\* title, the id and the short-body rules match, was classified by its title
C15_Witness ==
    /\ filterPc = "done"
    /\ input_articles = <<[id |-> StrId("test123"), name |-> "Test Article", body |-> "hi"]>>
    /\ analysis = <<[is_test |-> TRUE, reason |-> "Contains test-related word 'test' in the title"]>>

----------------------------------------------------------------------------
(* Further properties of the bulk operations *)

\* the call ended in a timeout, a connection failure or an error status
RaisesOrFails(response) == response.kind # "http" \/ response.status >= 400

\* C16: in one run of create_articles_individually_with_status or
\* bulk_delete_ada_articles no input item is the subject of two remote calls:
\* the calls are made for increasing items, a failed item is recorded as
\* failed and the run goes on with the next item, so the remote calls never
\* outnumber the input items.
C16_NoRetries ==
    batchKind \in {"create", "delete"} =>
        /\ \A k, l \in 1..Len(http_trace) : k < l => http_trace[k].index < http_trace[l].index
        /\ \A k \in 1..Len(http_trace) : http_trace[k].index \in 1..idx
        /\ Len(http_trace) <= idx
        /\ idx <= Len(items)
        /\ \A k \in 1..Len(http_trace) :
              RaisesOrFails(http_trace[k].response) => Work[http_trace[k].index] \in FailedItems

\* C16 witness: a delete batch of three ids ended after three calls, the
\* first of them failed
C16_Witness ==
    /\ batchKind = "delete"
    /\ batchPc = "done"
    /\ Len(items) = 3
    /\ Len(http_trace) = 3
    /\ http_trace[1].response = HttpStatus(500)
    /\ http_trace[1].index = 1
    /\ batchResult.failed >= 1

----------------------------------------------------------------------------
(* Properties of the comparison steps *)

\* what a retrieval from the destination would return now
CurrentDestination == PageArticles(ServerResponse(server, 1).data, knowledge_source_id)

----------------------------------------------------------------------------
(* Order and purity of compare_articles_detailed *)

\* the place of the first article of list with identifier k
FirstPlace(list, k) ==
    CHOOSE i \in 1..Len(list) : Ident(list[i]) = k /\ \A j \in 1..Len(list) : Ident(list[j]) = k => i <= j

\* the articles of out follow each other as their identifiers do in list
InOrderOf(out, list) ==
    \A p, q \in 1..Len(out) : p < q => FirstPlace(list, Ident(out[p])) < FirstPlace(list, Ident(out[q]))

\* no identifier is listed twice in out
ListedOnce(out) == \A p, q \in 1..Len(out) : Ident(out[p]) = Ident(out[q]) => p = q

\* the last article of list with identifier k
LastWith(list, k) ==
    list[CHOOSE i \in 1..Len(list) : Ident(list[i]) = k /\ \A j \in 1..Len(list) : Ident(list[j]) = k => j <= i]

\* C18, as claimed: articles_to_add and articles_existing list their
\* articles in the order of the source list, articles_to_delete in the order
\* of the destination list.
C18_InputOrder ==
    cmpPc = "compared" =>
        /\ InOrderOf(comparison_result.articles_to_add, grab_articles)
        /\ InOrderOf(ExistingGrabSide(comparison_result), grab_articles)
        /\ InOrderOf(comparison_result.articles_to_delete, ada_articles_data.data)

\* C18, amended: each of articles_to_add, articles_existing and
\* articles_to_delete lists every identifier of its partition once, with the
\* last article of the input list that has this identifier; the order of the
\* lists is the iteration order of a set of strings, which the order of the
\* input lists does not determine.
C18_SetOrder ==
    cmpPc = "compared" =>
        LET r == comparison_result
            S == Idents(grab_articles)
            D == Idents(ada_articles_data.data) \ {""}
        IN  /\ ListedOnce(r.articles_to_add)
            /\ ListedOnce(ExistingGrabSide(r))
            /\ ListedOnce(r.articles_to_delete)
            /\ Idents(r.articles_to_add) = S \ D
            /\ Idents(ExistingGrabSide(r)) = S \cap D
            /\ Idents(r.articles_to_delete) = D \ S
            /\ \A p \in 1..Len(r.articles_to_add) :
                  r.articles_to_add[p] = LastWith(grab_articles, Ident(r.articles_to_add[p]))
            /\ \A p \in 1..Len(r.articles_existing) :
                  /\ r.articles_existing[p].grab_article
                        = LastWith(grab_articles, Ident(r.articles_existing[p].grab_article))
                  /\ r.articles_existing[p].ada_article
                        = LastWith(ada_articles_data.data, Ident(r.articles_existing[p].grab_article))
            /\ \A p \in 1..Len(r.articles_to_delete) :
                  r.articles_to_delete[p] = LastWith(ada_articles_data.data, Ident(r.articles_to_delete[p]))

\* C18 witness: the source list has article 42 before article 7, and
\* articles_to_add lists 7 before 42
C18_Witness ==
    /\ cmpPc \in {"compared", "again"}
    /\ Len(grab_articles) = 2
    /\ grab_articles[1].id = IntId(42)
    /\ grab_articles[2].id = IntId(7)
    /\ Len(comparison_result.articles_to_add) = 2
    /\ comparison_result.articles_to_add[1].id = IntId(7)
    /\ comparison_result.articles_to_add[2].id = IntId(42)

\* the articles of a list, as a set
AsSet(list) == {list[i] : i \in 1..Len(list)}

\* two results of compare_articles_detailed hold the same partitions
SamePartitions(r1, r2) ==
    /\ AsSet(r1.articles_to_add) = AsSet(r2.articles_to_add)
    /\ AsSet(r1.articles_to_delete) = AsSet(r2.articles_to_delete)
    /\ AsSet(r1.articles_existing) = AsSet(r2.articles_existing)
    /\ Len(r1.articles_to_add) = Len(r2.articles_to_add)
    /\ Len(r1.articles_to_delete) = Len(r2.articles_to_delete)
    /\ Len(r1.articles_existing) = Len(r2.articles_existing)
    /\ r1.grab_total = r2.grab_total /\ r1.ada_total = r2.ada_total
    /\ r1.grab_ids = r2.grab_ids /\ r1.ada_ids = r2.ada_ids

----------------------------------------------------------------------------
(* Order of logging and deciding in get_ada_articles *)

\* entry is the call-log entry of the request of page p answered with status
IsPageEntry(entry, p, status) ==
    /\ entry.method = "GET"
    /\ entry.url = "articles/?page"
    /\ entry.status_code = status
    /\ entry.success = (status = 200)
    /\ entry.ref = [page |-> p]

----------------------------------------------------------------------------
(* The page requests of one get_ada_articles *)

\* the page requests get_ada_articles has issued
PageRequests == SelectSeq(http_trace, LAMBDA call : call.method = "GET" /\ "page" \in DOMAIN call)

\* C21, as claimed: one get_ada_articles never issues more than 100 page
\* requests, whatever the service answers.
C21_AtMost100Requests == Len(PageRequests) <= MaxPageLimit

\* the articles the pages answered so far have added to all_articles
KeptOf(trace, ks) ==
    Flatten([i \in 1..Len(trace) |-> [data |-> PageArticles(trace[i].response.data, ks)]])

\* the answer has status 200 and its metadata declares that no page follows
DeclaresLastPage(call) ==
    /\ call.response.kind = "http"
    /\ call.response.status = 200
    /\ LET pagination == Pagination(call.response, call.page)
       IN  /\ "current_page" \in DOMAIN pagination
           /\ "total_pages" \in DOMAIN pagination
           /\ pagination.current_page >= pagination.total_pages

----------------------------------------------------------------------------
(* Order and progress of the bulk operations *)

\* the place of an item in the list the loop runs over (the items of a run
\* are distinct)
PlaceInWork(item) == CHOOSE i \in 1..Len(Work) : Work[i] = item

\* the item of an entry of the success list and of the failure list
SuccessItem(k) == IF batchKind = "create" THEN successful[k].article ELSE successful[k]

FailedItem(k) == IF batchKind = "create" THEN failed[k].article ELSE failed[k].article_id

\* the two per-item lists list their items in the relative order of the input
ResultsInInputOrder ==
    /\ \A k, l \in 1..Len(successful) :
          k < l => PlaceInWork(SuccessItem(k)) < PlaceInWork(SuccessItem(l))
    /\ \A k, l \in 1..Len(failed) :
          k < l => PlaceInWork(FailedItem(k)) < PlaceInWork(FailedItem(l))
    /\ SuccessItems \cup FailedItems = {Work[i] : i \in 1..idx}

\* C27, as claimed: the i-th remote call is made for the i-th input item,
\* and the success list and the failure list keep the relative order of the
\* input.
C27_IthCallForIthItem ==
    batchKind \in {"create", "delete"} =>
        /\ \A k \in 1..Len(http_trace) :
              http_trace[k].index = k /\ http_trace[k].target = Work[k]
        /\ ResultsInInputOrder

\* C27, amended: the items are processed in input order: the remote calls
\* are made for increasing places of the input, one for every item except the
\* ids of a delete batch that are empty (no call is made for them, they are
\* recorded as failed), so that the k-th call is for the k-th item that gets a
\* call; the success list and the failure list keep the relative order of
\* the input.
C27_CallsInInputOrder ==
    batchKind \in {"create", "delete"} =>
        /\ \A k \in 1..Len(http_trace) : http_trace[k].target = Work[http_trace[k].index]
        /\ \A k, l \in 1..Len(http_trace) : k < l => http_trace[k].index < http_trace[l].index
        /\ {http_trace[k].index : k \in 1..Len(http_trace)}
              = {i \in 1..idx : batchKind = "create" \/ Truthy(Work[i])}
        /\ \A i \in 1..idx : (batchKind = "delete" /\ ~Truthy(Work[i])) => Work[i] \in FailedItems
        /\ ResultsInInputOrder

\* C27 witness: a delete batch of three ids, the second one empty, ended
\* after two calls, the second of them for the third id, with two failures
C27_Witness ==
    /\ batchKind = "delete"
    /\ batchPc = "done"
    /\ Len(items) = 3
    /\ ~Truthy(items[2])
    /\ Len(http_trace) = 2
    /\ http_trace[2].index = 3
    /\ Len(failed) = 2
    /\ Len(successful) = 1

\* the batch has entered its loop (it was configured and its list is not
\* empty) or has returned its report
BatchRunning ==
    /\ batchKind \in {"create", "delete"}
    /\ batchPc \in {"loop", "call", "done"}
    /\ batchPc = "done" => batchResult.ok

\* C28, as claimed: at every moment of a batch over n items the reported
\* percentage is (items whose remote call has finished) / n and the reported
\* running counts are the outcomes of those finished items.
C28_ProgressIsFinishedWork ==
    BatchRunning =>
        /\ progress[1] * Len(Work) = idx * progress[2]
        /\ metrics = [successful |-> Len(successful), failed |-> Len(failed)]

\* C28, amended: the progress bar counts the item in hand: while the remote
\* call of item i is in flight it shows i / n, that is one item more than
\* have finished (100% during the last call), and it keeps that value until
\* the next item starts; the create batch displays running counts, which
\* while a call is in flight and at the end are the outcomes of the finished
\* items; the delete batch displays no counts; the percentage never
\* decreases and is 100% when the batch ends.
C28_ProgressIsItemInHand ==
    /\ [](BatchRunning =>
            /\ batchPc = "call" => progress = <<idx + 1, Len(Work)>>
            /\ (batchPc = "loop" /\ Work # <<>>) => progress = <<idx, Len(Work)>>
            /\ batchPc = "done" => progress[1] = progress[2]
            /\ batchKind = "delete" => metrics = NoResult
            /\ (batchKind = "create" /\ batchPc \in {"call", "done"}) =>
                  /\ metrics = [successful |-> Len(successful), failed |-> Len(failed)]
                  /\ Len(successful) + Len(failed) = idx)
    /\ [][progress'[1] * progress[2] >= progress[1] * progress'[2]]_vars

\* C28 witness: the second call of a create batch of three articles is in
\* flight: the bar shows 2/3 with one article finished, and its failure is
\* displayed
C28_Witness ==
    /\ batchKind = "create"
    /\ batchPc = "call"
    /\ Len(Work) = 3
    /\ idx = 1
    /\ progress = <<2, 3>>
    /\ metrics = [successful |-> 0, failed |-> 1]

----------------------------------------------------------------------------
(* The knowledge source of the articles get_ada_articles returns *)

MaxCompared == 6    \* longest fetched list that is given to a comparison here

\* source lists to reconcile a fetched destination with
ContainmentSources ==
    {<<>>, <<[id |-> StrId("a1"), name |-> "A1"]>>, <<[id |-> IntId(7), name |-> "Promo"]>>}

\* the articles of the orphaned partition of every comparison of a source
\* list of ContainmentSources with result
OrphansOf(result) ==
    UNION {UNION {{CompareResult(grab, result, grabOrder, adaOrder).articles_to_delete[i] :
                      i \in 1..Cardinality(DeleteKeys(GrabIds(grab), AdaIds(result.data)))} :
                  grabOrder \in Orders(GrabIds(grab)), adaOrder \in Orders(AdaIds(result.data))} :
           grab \in ContainmentSources}

\* C29: when get_ada_articles is called with a knowledge_source_id, every
\* article it accumulates and returns has exactly that knowledge_source_id,
\* whatever the pages of the server hold, so that no article of another
\* knowledge source is in the orphaned partition of a comparison built from
\* the result.
C29_KnowledgeSourceContainment ==
    knowledge_source_id # "" =>
        /\ \A i \in 1..Len(all_articles) : KsOf(all_articles[i]) = knowledge_source_id
        /\ (fetchPc = "done" /\ fetchResult.ok) =>
              /\ \A i \in 1..Len(fetchResult.data) : KsOf(fetchResult.data[i]) = knowledge_source_id
              /\ Len(fetchResult.data) <= MaxCompared =>
                    \A article \in OrphansOf(fetchResult) : KsOf(article) = knowledge_source_id

\* C29 witness: the server answered with a full page and a short page, each
\* holding an article of another knowledge source, and the fetch for "ks1"
\* returned the 101 articles of "ks1"
C29_Witness ==
    /\ knowledge_source_id = "ks1"
    /\ fetchPc = "done"
    /\ fetchResult.ok
    /\ Len(http_trace) = 2
    /\ \A k \in 1..2 : \E i \in 1..Len(http_trace[k].response.data) :
          KsOf(http_trace[k].response.data[i]) = "ks2"
    /\ fetchResult.total = PerPage + 1

----------------------------------------------------------------------------
(* Properties of filter_articles *)

\* the article is to be filtered out under the two settings
ToBeFiltered(article) ==
    \/ filter_testing /\ is_testing_article(article).is_test
    \/ filter_empty /\ is_empty_article(article).is_empty

\* C30: filter_articles partitions its input: the production list and the
\* filtered list are disjoint, together they hold every input article
\* exactly once, each keeps the input order, and an article is in the
\* filtered list if and only if (filter_testing and it is a testing article)
\* or (filter_empty and it is an empty article).
C30_FilterPartition ==
    filterPc = "filtered" =>
        /\ AsSet(production_articles) \cap AsSet(filtered_articles) = {}
        /\ Len(production_articles) + Len(filtered_articles) = Len(input_articles)
        /\ filtered_articles = SelectSeq(input_articles, ToBeFiltered)
        /\ production_articles = SelectSeq(input_articles, LAMBDA a : ~ToBeFiltered(a))

\* C30 witness: with both filters on, a list of three articles was split
\* into a production article, and an empty and a testing article
C30_Witness ==
    /\ filterPc = "filtered"
    /\ filter_testing
    /\ filter_empty
    /\ Len(input_articles) = 3
    /\ Len(production_articles) = 1
    /\ \E i, j \in 1..2 :
          /\ analysis[i].is_empty /\ ~analysis[i].is_testing
          /\ analysis[j].is_testing /\ ~analysis[j].is_empty
          /\ analysis[i].article \in AsSet(filtered_articles)
          /\ analysis[j].article \in AsSet(filtered_articles)

----------------------------------------------------------------------------
(* The compare step and the lists of the session *)

\* this step is a press of the button of step 2: a COMPARE entry is appended
\* to the call log
IsCompareStep ==
    /\ Len(api_call_log') = Len(api_call_log) + 1
    /\ api_call_log'[Len(api_call_log')].method = "COMPARE"

\* this step is a press of a button that starts a bulk operation of the
\* given kind
IsBatchClick(kind) == batchPc = "idle" /\ batchPc' = "start" /\ batchKind' = kind

ProductionIds == {Str(production_articles[i].id) : i \in 1..Len(production_articles)}

\* C24 as written: the source list the compare step hands to
\* compare_articles_detailed is the list of production articles.
C24_ComparesProductionSet ==
    [][IsCompareStep => grab_articles' = production_articles]_vars

\* C24, amended: the compare step hands every fetched article of the session
\* (all_articles, the testing and the empty ones included) to
\* compare_articles_detailed, the three lists are computed relative to that
\* list, and only the articles handed to the add step are restricted to the
\* production articles.
C24_ComparesAllAddsProduction ==
    [][/\ IsCompareStep =>
            /\ grab_articles' = session_all_articles
            /\ \E grabOrder \in Orders(GrabIds(session_all_articles)),
                  adaOrder \in Orders(AdaIds(ada_articles_result.data)) :
                  comparison_result' = CompareResult(session_all_articles, ada_articles_result,
                                                     grabOrder, adaOrder)
       /\ IsBatchClick("create") =>
            \A i \in 1..Len(items') : Str(items'[i].id) \in ProductionIds]_vars

\* a comparison was made of a fetched list that holds an article the
\* classification filtered out, and that article is in one of its lists
C24_Witness ==
    /\ cmpPc = "compared"
    /\ grab_articles = session_all_articles
    /\ production_articles # session_all_articles
    /\ filtered_articles # <<>>
    /\ \E i \in 1..Len(comparison_result.articles_to_add) :
          Str(comparison_result.articles_to_add[i].id) \notin ProductionIds

----------------------------------------------------------------------------
(* The delete step of the page *)

\* this step sends a DELETE request for an article
IsDeleteRequest ==
    /\ Len(http_trace') = Len(http_trace) + 1
    /\ http_trace'[Len(http_trace')].method = "DELETE"

\* the keys of the articles of the new and of the existing partition of a
\* comparison result
NewOrExistingKeys(result) ==
    {GrabKey(result.articles_to_add[i]) : i \in 1..Len(result.articles_to_add)}
        \cup {AdaKey(result.articles_existing[i].ada_article) :
                i \in 1..Len(result.articles_existing)}
        \cup {GrabKey(result.articles_existing[i].grab_article) :
                i \in 1..Len(result.articles_existing)}

\* C23: a DELETE request for an article is sent only for the id of an
\* article of articles_to_delete of the stored comparison whose checkbox the
\* operator ticked, only with the confirmation ticked, and never for an
\* article of the new or of the existing partition of that comparison.
C23_DeletesOnlyConfirmedOrphans ==
    [][IsDeleteRequest =>
        LET target == http_trace'[Len(http_trace')].target
        IN  /\ comparison_result # NoResult
            /\ \E i \in 1..Len(comparison_result.articles_to_delete) :
                  /\ comparison_result.articles_to_delete[i].id = target
                  /\ Str(target) \in delete_checked
            /\ confirm_deletion
            /\ Str(target) \notin NewOrExistingKeys(comparison_result)]_vars

\* a delete batch of the page has sent a DELETE request while the
\* comparison holds articles of the other partitions and an orphan that was
\* not selected
C23_Witness ==
    /\ sessPc = "step3"
    /\ batchKind = "delete"
    /\ http_trace # <<>>
    /\ http_trace[Len(http_trace)].method = "DELETE"
    /\ http_trace[Len(http_trace)].response = HttpStatus(204)
    /\ NewOrExistingKeys(comparison_result) # {}
    /\ \E i \in 1..Len(comparison_result.articles_to_delete) :
          Str(comparison_result.articles_to_delete[i].id) \notin delete_checked

----------------------------------------------------------------------------
(* The age of the stored comparison *)

\* the entry of the call log records a fetch that succeeded: the request of
\* fetch_grab_data, or a page or the summary of get_ada_articles
IsFetchEntry(entry) == entry.method = "GET" /\ entry.success

\* the stored comparison was computed after every fetch of the call log
ComparedAfterEveryFetch(log) ==
    \A i \in 1..Len(log) :
        IsFetchEntry(log[i]) => \E j \in (i + 1)..Len(log) : log[j].method = "COMPARE"

\* C26: once a fetch from the source or from the destination was made, no
\* delete or add operation is started from a comparison that was computed
\* before that fetch.
C26_NoActionFromStaleComparison ==
    [][(IsBatchClick("delete") \/ IsBatchClick("create"))
            => ComparedAfterEveryFetch(api_call_log)]_vars

----------------------------------------------------------------------------
(* The destination after the articles of articles_to_add were created *)

\* this step is the return of the add batch to the page
IsAddReturn == sessPc = "step4" /\ sessPc' = "idle"

\* the article was created with the payload convert_to_ada_format builds
CreatedFrom(article) ==
    \E k \in 1..Len(successful) :
        successful[k].article = AdaPayload(article, options, knowledge_source_id)

\* every article of articles_to_add of the stored comparison was created
AllAdded ==
    /\ batchKind = "create"
    /\ comparison_result # NoResult
    /\ comparison_result.articles_to_add # <<>>
    /\ \A i \in 1..Len(comparison_result.articles_to_add) :
          CreatedFrom(comparison_result.articles_to_add[i])

\* the results of reconciling the source list of the stored comparison with
\* the destination list dest
ReconciledWith(dest) ==
    {CompareResult(grab_articles, [data |-> dest], grabOrder, adaOrder) :
        grabOrder \in Orders(GrabIds(grab_articles)), adaOrder \in Orders(AdaIds(dest))}

\* the article is in articles_existing and not in articles_to_add
Converged(article, result) ==
    /\ \E j \in 1..Len(result.articles_existing) :
          result.articles_existing[j].grab_article = article
    /\ \A j \in 1..Len(result.articles_to_add) : result.articles_to_add[j] # article

====
